---------------------------- MODULE Spec2Model ----------------------------
(***************************************************************************)
(* Model of the tree compute pipeline of Gtol (src/tree-web/tree_algo.py): *)
(* build_graph -> parse_newick (fed lazily by _tokenize) ->                 *)
(* build_display_graph (compute_cumdist, assign_y_equal_leaf_spacing, stem *)
(* spreading, point and link emission, leaf markers), specification Spec,  *)
(* and of the job orchestrator that runs it in the background              *)
(* (src/tree-web/app_custom.py and its predecessor src/deprecated/app.py), *)
(* specification JobSpec.                                                  *)
(*                                                                         *)
(* Representation.                                                         *)
(*   - A Python str is a sequence of one-character strings.                *)
(*   - Optional[T] is a sequence of length <= 1: <<>> is None, <<v>> is v. *)
(*   - Node id "n<k>" is the integer k (k >= 1); "root0" is the integer 0. *)
(*     The dict `nodes` keeps insertion order: n1, n2, ..., then root0.    *)
(*   - Branch lengths are integers: the texts of the model hold no '.',    *)
(*     no '+' and no 'e'/'E' after a digit, so the fraction and exponent   *)
(*     parts of the length pattern never match.                            *)
(*   - y coordinates are exact rationals [n, d] (a mean of children).      *)
(*   - Lengths and geometry parameters being integers, every x coordinate  *)
(*     is an integer.  q(v) = float(f"{v:.6f}") is the identity on them;   *)
(*     on a y coordinate it rounds to a whole number of millionths, kept   *)
(*     as [w, m] = w + m / 10^6.                                           *)
(*   - A job id (a uuid4 string) is the integer 1, 2, ... in creation      *)
(*     order.  A Job object lives on after its eviction from JOBS: its     *)
(*     worker thread and its open streams still hold it.                   *)
(*   - time.time() is `clock`, in seconds, advancing by half hours.        *)
(***************************************************************************)
EXTENDS Integers, Sequences, FiniteSets, TLC

VARIABLES
    entry,           \* which function the caller invoked
    text,            \* the Newick text handed to the entry point
    limit,           \* parse_newick's `limit` argument (Optional[int])
    newick,          \* parse_newick's `newick` argument
    i,               \* _tokenize: position in s (1-based)
    nodes,           \* parse_newick: Dict[str, TNode]
    nid,             \* parse_newick: id counter
    stack,           \* parse_newick: List[Optional[str]]
    last,            \* parse_newick: Optional[str]
    current_parent,  \* parse_newick: Optional[str]
    pending_name,    \* parse_newick: Optional[str]
    pending_len,     \* parse_newick: Optional[float]
    pc,              \* control point of the pipeline
    err,             \* the exception that ended the run ("" when none)
    dist,            \* build_display_graph: compute_cumdist result
    y,               \* build_display_graph: assign_y_equal_leaf_spacing result
    geom,            \* build_display_graph: the keyword arguments
    raw_stems,       \* build_display_graph: List[float]
    spread_stems,    \* build_display_graph: List[float]
    stem_map,        \* build_display_graph: Dict[float, float]
    pts,             \* build_display_graph: List[Dict] (position p holds row p-1)
    links,           \* build_display_graph: List[Dict]
    node_id_actual,  \* build_display_graph: Dict[str, int]
    next_id,         \* build_display_graph: id counter of add_point
    point_cache,     \* build_display_graph: Dict[(kind, x, y), int]
    link_cache,      \* build_display_graph: Set[(int, int)]
    id_to_idx,       \* build_display_graph: Dict[int, int]
    x_tipline,       \* build_display_graph: x of the leaf markers
    cursor,          \* build_display_graph: position of the running for-loop
    impl,            \* which app module serves: "app_custom" or "deprecated"
    clock,           \* time.time()
    JOBS,            \* the keys of the job table
    jobs,            \* every Job object made so far, by id
    files,           \* the paths that exist under temp_uploads
    streams,         \* the event streams opened by get_job_progress
    response,        \* the answer of get_job_result when the last step was a call of it
    buf,             \* compute: the text written to the gzip stream so far
    offset,          \* compute: the `i` of the running batch loop
    calls,           \* start_graph_job: the calls of the handler, each on its thread
    progress_queue,  \* api_graph_stream: the events the compute thread has put
    computation_done, \* api_graph_stream: the threading.Event of the compute thread
    result_storage,  \* api_graph_stream: the tables the compute thread stored
    compute,         \* api_graph_stream: the position of the compute thread
    generate,        \* api_graph_stream: the position of the generator
    yielded          \* api_graph_stream: the messages the generator has yielded

\* the locals of build_display_graph after the y assignment
layoutVars == <<raw_stems, spread_stems, stem_map, pts, links,
                node_id_actual, next_id, point_cache, link_cache,
                id_to_idx, x_tipline, cursor>>

\* the state of the writer of the worker
writerVars == <<buf, offset>>

\* the state of the calls of start_graph_job
startVars == <<calls>>

\* the state of one call of /api/graph/stream
sseVars == <<progress_queue, computation_done, result_storage, compute,
             generate, yielded>>

\* the state of the job orchestrator
jobVars == <<impl, clock, JOBS, jobs, files, streams, response>>

\* the state of the compute pipeline
pipelineVars == <<entry, text, limit, newick, i, nodes, nid, stack, last,
                  current_parent, pending_name, pending_len, pc, err, dist,
                  y, geom, layoutVars>>

vars == <<entry, text, limit, newick, i, nodes, nid, stack, last,
          current_parent, pending_name, pending_len, pc, err, dist, y,
          geom, layoutVars, jobVars, writerVars, startVars, sseVars>>

-----------------------------------------------------------------------------
(* Bounds of the model *)

\* number of text pieces concatenated into an exhaustively enumerated input
MaxPieces == 3

\* largest value of `limit` tried
MaxLimit == 2

\* number of Start calls
MaxJobs == 2

\* number of event streams opened by Progress calls
MaxStreams == 2

\* number of times the clock advances
MaxTicks == 1

\* the most rows of a table handed to the worker
MaxRows == 4

\* number of calls of start_graph_job
MaxCalls == 3

-----------------------------------------------------------------------------
(* Program constants *)

\* params["leaf_step"], passed by build_graph to build_display_graph
leaf_step == 400

\* Geometry & appearance (pixels)
X_SCALE_PX == 140
MIN_STEM_GAP_PX == 56
PARENT_STUB_PX == 20
WEIGHTED_STUB_PX == 40
LEAF_Y_STEP_PX == 400
TIP_PAD_PX == 40

\* Per-kind point sizes
SIZE_LEAF_MARKER == 20
SIZE_INTERNAL == 6
SIZE_BEND == 3
SIZE_LEAF_REAL == 8

\* Colors
COLOR_LEAF == "#f5d76e"
COLOR_INTERNAL == "#8ab4f8"
COLOR_BEND == "#9aa0a6"
COLOR_LINK == "#97A1A9"

\* the geometry build_graph passes: the entries of `params`
params ==
    [x_scale |-> 140, min_level_gap |-> 56, leaf_step |-> leaf_step,
     parent_stub |-> 20, tip_pad |-> 40]

\* the keyword defaults of build_display_graph
DefaultGeometry ==
    [x_scale |-> X_SCALE_PX, min_level_gap |-> MIN_STEM_GAP_PX,
     leaf_step |-> LEAF_Y_STEP_PX, parent_stub |-> PARENT_STUB_PX,
     tip_pad |-> TIP_PAD_PX]

None == <<>>
Some(v) == <<v>>

\* the id of the synthetic root "root0"
root0 == 0

-----------------------------------------------------------------------------
(* Input texts *)

\* (A:1,B:2);
Text_TwoLeaf ==
    <<"(", "A", ":", "1", ",", "B", ":", "2", ")", ";">>
\* (A,B
Text_Unterminated ==
    <<"(", "A", ",", "B">>
\* (A:1,B:1,C:1,D:1);
Text_Polytomy ==
    <<"(", "A", ":", "1", ",", "B", ":", "1", ",", "C", ":", "1", ",", "D", ":", "1", ")", ";">>
\* (A:1,B:1);(C:1,D:1);
Text_Forest ==
    <<"(", "A", ":", "1", ",", "B", ":", "1", ")", ";", "(", "C", ":", "1", ",", "D", ":", "1", ")", ";">>
\* (A:0,B:0);
Text_ZeroLen ==
    <<"(", "A", ":", "0", ",", "B", ":", "0", ")", ";">>
\* ('Homo sapiens':1,'Pan\ttroglodytes':1);
Text_Quoted ==
    <<"(", "'", "H", "o", "m", "o", " ", "s", "a", "p", "i", "e", "n", "s", "'", ":", "1", ",", "'", "P", "a", "n", "\t", "t", "r", "o", "g", "l", "o", "d", "y", "t", "e", "s", "'", ":", "1", ")", ";">>
\* ((A,B)X,C);
Text_GroupName ==
    <<"(", "(", "A", ",", "B", ")", "X", ",", "C", ")", ";">>
\* ((A,B):5,C);
Text_GroupLen ==
    <<"(", "(", "A", ",", "B", ")", ":", "5", ",", "C", ")", ";">>
\* ((B:-5,A:2):-1,C);
Text_NegLen ==
    <<"(", "(", "B", ":", "-", "5", ",", "A", ":", "2", ")", ":", "-", "1", ",", "C", ")", ";">>
\* (B)(A);
Text_TwoGroups ==
    <<"(", "B", ")", "(", "A", ")", ";">>
\* C,A,B
Text_ThreeTops ==
    <<"C", ",", "A", ",", "B">>
\* (A:1,B:5);
Text_Uneven ==
    <<"(", "A", ":", "1", ",", "B", ":", "5", ")", ";">>
\* ((A));
Text_Chain ==
    <<"(", "(", "A", ")", ")", ";">>

Scenarios ==
    { Text_TwoLeaf, Text_Unterminated, Text_Polytomy, Text_Forest,
      Text_ZeroLen, Text_Quoted, Text_GroupName, Text_GroupLen,
      Text_NegLen, Text_TwoGroups, Text_ThreeTops, Text_Uneven,
      Text_Chain }

\* the pieces every short input is built from
Pieces ==
    { <<"(">>, <<")">>, <<",">>, <<";">>, <<":">>, <<" ">>, <<"'">>,
      <<"A">>, <<"B">>, <<"5">>, <<"-", "5">> }

RECURSIVE TextsUpTo(_)
TextsUpTo(n) ==
    IF n = 0 THEN { <<>> }
    ELSE LET shorter == TextsUpTo(n - 1)
         IN  shorter \cup { t \o p : t \in shorter, p \in Pieces }

Inputs == TextsUpTo(MaxPieces) \cup Scenarios

Limits == { None } \cup { Some(L) : L \in 1..MaxLimit }

\* the geometries a caller of build_display_graph passes in place of the
\* defaults: a longer parent stub, no stem gap, a stem gap wider than one
\* length unit, and a small scale with its own leaf step and no tip padding
Geometries ==
    { [DefaultGeometry EXCEPT !.parent_stub = 30],
      [DefaultGeometry EXCEPT !.min_level_gap = 0],
      [DefaultGeometry EXCEPT !.min_level_gap = 200],
      [DefaultGeometry EXCEPT !.x_scale = 10, !.leaf_step = 100,
                              !.tip_pad = 0] }

-----------------------------------------------------------------------------
(* Python str helpers *)

IsSpace(c) == c \in {" ", "\t"}

RECURSIVE SkipSpace(_, _)
\* first position >= k of s that holds no whitespace (Len(s)+1 if none)
SkipSpace(s, k) ==
    IF k <= Len(s) /\ IsSpace(s[k]) THEN SkipSpace(s, k + 1) ELSE k

RECURSIVE LastNonSpace(_, _)
LastNonSpace(s, k) ==
    IF k >= 1 /\ IsSpace(s[k]) THEN LastNonSpace(s, k - 1) ELSE k

\* str.strip()
Strip(s) ==
    LET a == SkipSpace(s, 1)
        b == LastNonSpace(s, Len(s))
    IN  IF a > b THEN <<>> ELSE SubSeq(s, a, b)

RECURSIVE IndexOf(_, _, _)
\* first position >= k of character c in s, 0 if none
IndexOf(s, c, k) ==
    IF k > Len(s) THEN 0
    ELSE IF s[k] = c THEN k ELSE IndexOf(s, c, k + 1)

RECURSIVE Split(_, _)
\* str.split(c)
Split(s, c) ==
    LET k == IndexOf(s, c, 1)
    IN  IF k = 0 THEN << s >>
        ELSE << SubSeq(s, 1, k - 1) >> \o Split(SubSeq(s, k + 1, Len(s)), c)

IsDigit(c) == c \in {"0", "1", "2", "3", "4", "5", "6", "7", "8", "9"}

DigitVal(c) ==
    CASE c = "0" -> 0 [] c = "1" -> 1 [] c = "2" -> 2 [] c = "3" -> 3
      [] c = "4" -> 4 [] c = "5" -> 5 [] c = "6" -> 6 [] c = "7" -> 7
      [] c = "8" -> 8 [] c = "9" -> 9

RECURSIVE DigitsVal(_)
DigitsVal(s) ==
    IF s = <<>> THEN 0
    ELSE 10 * DigitsVal(SubSeq(s, 1, Len(s) - 1)) + DigitVal(s[Len(s)])

\* float(t) for a text t made of an optional sign and digits
Float(t) ==
    IF t[1] = "-" THEN 0 - DigitsVal(Tail(t))
    ELSE IF t[1] = "+" THEN DigitsVal(Tail(t))
    ELSE DigitsVal(t)

-----------------------------------------------------------------------------
(* _tokenize *)

Delims == {"(", ")", ",", ";"}
NameStop == Delims \cup {":"}

RECURSIVE NameEnd(_, _)
\* end of the greedy run [^(),:;]+ starting at j
NameEnd(s, j) ==
    IF j <= Len(s) /\ s[j] \notin NameStop THEN NameEnd(s, j + 1) ELSE j

RECURSIVE DigitsEnd(_, _)
DigitsEnd(s, j) ==
    IF j <= Len(s) /\ IsDigit(s[j]) THEN DigitsEnd(s, j + 1) ELSE j

\* third alternative of _TOKEN_RE at k: (\s*:\s*[-+]?\d+)
LengthMatch(s, k) ==
    LET a == SkipSpace(s, k)
        b == SkipSpace(s, a + 1)
        c == IF b <= Len(s) /\ s[b] \in {"-", "+"} THEN b + 1 ELSE b
        d == DigitsEnd(s, c)
    IN  IF a <= Len(s) /\ s[a] = ":" /\ d > c
        THEN [matched |-> TRUE, grp |-> SubSeq(s, k, d - 1), end |-> d]
        ELSE [matched |-> FALSE, grp |-> <<>>, end |-> k]

\* _TOKEN_RE.match(s, k): the alternatives are tried in order, with
\* backtracking inside each.
TokenMatch(s, k) ==
    LET j == SkipSpace(s, k)
        e == NameEnd(s, j)
    IN  IF j <= Len(s) /\ s[j] \in Delims
        THEN \* \s*([(),;])\s*
             [matched |-> TRUE, grp |-> << s[j] >>, end |-> SkipSpace(s, j + 1)]
        ELSE IF e > j
        THEN \* \s*([^(),:;]+)\s* : the group runs greedily over inner and
             \* trailing whitespace
             [matched |-> TRUE, grp |-> SubSeq(s, j, e - 1), end |-> e]
        ELSE IF j > k
        THEN \* only whitespace before ':' : \s* gives back one character
             \* and the group is that whitespace character
             [matched |-> TRUE, grp |-> << s[j - 1] >>, end |-> j]
        ELSE LengthMatch(s, k)

RECURSIVE NextToken(_, _)
\* one step of the generator _tokenize at position k: the token it yields
\* and the position after it, the ValueError it raises, or its end
NextToken(s, k) ==
    IF k > Len(s) THEN [kind |-> "end", tok |-> <<>>, end |-> k]
    ELSE LET m == TokenMatch(s, k)
         IN  IF m.matched
             THEN [kind |-> "tok", tok |-> Strip(m.grp), end |-> m.end]
             ELSE IF IsSpace(s[k])
             THEN NextToken(s, k + 1)
             ELSE [kind |-> "raise", tok |-> <<>>, end |-> k]

-----------------------------------------------------------------------------
(* parse_newick *)

\* TNode(id=u, name=nm, parent=p) with the dataclass defaults
TNode(u, nm, p) ==
    [id |-> u, name |-> nm, parent |-> p, blen |-> 0, children |-> <<>>]

\* the keys of `nodes` in dict order: n1 .. n<nid>, then root0 if present
RECURSIVE UpTo(_)
UpTo(n) == IF n = 0 THEN <<>> ELSE Append(UpTo(n - 1), n)

Keys(tbl) ==
    LET n == Cardinality(DOMAIN tbl \ {root0})
    IN  IF root0 \in DOMAIN tbl THEN Append(UpTo(n), root0) ELSE UpTo(n)

\* nodes[u] = rec
Put(tbl, u, rec) == [k \in DOMAIN tbl \cup {u} |-> IF k = u THEN rec ELSE tbl[k]]

\* a parse that links the child to its parent but never lists it
AppendChildDropped(tbl, p, u) == tbl

\* nodes[p].children.append(u)
AppendChild(tbl, p, u) ==
    [tbl EXCEPT ![p].children = Append(@, u)]

\* s = newick.strip() in _tokenize
S == Strip(newick)

\* the token the for-loop of parse_newick fetches next
Tok == NextToken(S, i)

\* limit is not None and len(nodes) >= limit
LimitReached == limit # None /\ Cardinality(DOMAIN nodes) >= limit[1]

\* the loop body runs on a fetched token
Proceed == pc = "parse" /\ Tok.kind = "tok" /\ ~LimitReached

IsLength(tok) == Len(tok) >= 1 /\ tok[1] = ":"

\* _tokenize raises on a character that starts no token
TokenizeRaise ==
    /\ pc = "parse"
    /\ Tok.kind = "raise"
    /\ pc' = "raised"
    /\ err' = "ValueError: Unexpected token"
    /\ UNCHANGED <<sseVars, startVars, writerVars, jobVars, geom, layoutVars,
                   entry, text, limit, newick, i, nodes, nid, stack, last,
                   current_parent, pending_name, pending_len, dist, y>>

\* the generator is exhausted: the for-loop ends
EndOfTokens ==
    /\ pc = "parse"
    /\ Tok.kind = "end"
    /\ pc' = "roots"
    /\ UNCHANGED <<sseVars, startVars, writerVars, jobVars, geom, layoutVars,
                   entry, text, limit, newick, i, nodes, nid, stack, last,
                   current_parent, pending_name, pending_len, err, dist, y>>

\* the token is fetched, then the limit test breaks out of the loop
HitLimit ==
    /\ pc = "parse"
    /\ Tok.kind = "tok"
    /\ LimitReached
    /\ i' = Tok.end
    /\ pc' = "roots"
    /\ UNCHANGED <<sseVars, startVars, writerVars, jobVars, geom, layoutVars,
                   entry, text, limit, newick, nodes, nid, stack, last,
                   current_parent, pending_name, pending_len, err, dist, y>>

\* tok == "("
TokOpen ==
    /\ Proceed
    /\ Tok.tok = << "(" >>
    /\ LET u == nid + 1
           n1 == Put(nodes, u, TNode(u, <<>>, None))
       IN  /\ nid' = u
           /\ nodes' = IF current_parent # None
                        THEN [AppendChild(n1, current_parent[1], u)
                                EXCEPT ![u].parent = current_parent]
                        ELSE n1
           /\ stack' = Append(stack, current_parent)
           /\ current_parent' = Some(u)
    /\ last' = None
    /\ i' = Tok.end
    /\ UNCHANGED <<sseVars, startVars, writerVars, jobVars, geom, layoutVars,
                   entry, text, limit, newick, pending_name, pending_len,
                   pc, err, dist, y>>

\* tok == ","
TokComma ==
    /\ Proceed
    /\ Tok.tok = << "," >>
    /\ last' = None
    /\ pending_name' = None
    /\ pending_len' = None
    /\ i' = Tok.end
    /\ UNCHANGED <<sseVars, startVars, writerVars, jobVars, geom, layoutVars,
                   entry, text, limit, newick, nodes, nid, stack,
                   current_parent, pc, err, dist, y>>

\* the table after the two pending-slot writes of the ")" branch
AfterPending(tbl) ==
    LET t1 == IF pending_name # None
              THEN [tbl EXCEPT ![current_parent[1]].name = pending_name[1]]
              ELSE tbl
    IN  IF pending_len # None
        THEN [t1 EXCEPT ![current_parent[1]].blen = pending_len[1]]
        ELSE t1

\* nodes[None] in the ")" branch
CloseKeyError ==
    current_parent = None /\ (pending_name # None \/ pending_len # None)

\* tok == ")"
TokClose ==
    /\ Proceed
    /\ Tok.tok = << ")" >>
    /\ ~CloseKeyError
    /\ stack # <<>>
    /\ nodes' = AfterPending(nodes)
    /\ pending_name' = None
    /\ pending_len' = None
    /\ current_parent' = stack[Len(stack)]
    /\ stack' = SubSeq(stack, 1, Len(stack) - 1)
    /\ last' = None
    /\ i' = Tok.end
    /\ UNCHANGED <<sseVars, startVars, writerVars, jobVars, geom, layoutVars,
                   entry, text, limit, newick, nid, pc, err, dist, y>>

\* tok == ")" with nothing to close: nodes[None] raises KeyError, or
\* stack.pop() raises IndexError
TokCloseRaise ==
    /\ Proceed
    /\ Tok.tok = << ")" >>
    /\ CloseKeyError \/ stack = <<>>
    /\ err' = IF CloseKeyError THEN "KeyError" ELSE "IndexError"
    /\ nodes' = IF CloseKeyError THEN nodes ELSE AfterPending(nodes)
    /\ pending_name' = IF CloseKeyError THEN pending_name ELSE None
    /\ pending_len' = IF CloseKeyError THEN pending_len ELSE None
    /\ pc' = "raised"
    /\ i' = Tok.end
    /\ UNCHANGED <<sseVars, startVars, writerVars, jobVars, geom, layoutVars,
                   entry, text, limit, newick, nid, stack, last,
                   current_parent, dist, y>>

\* tok == ";"
TokSemi ==
    /\ Proceed
    /\ Tok.tok = << ";" >>
    /\ i' = Tok.end
    /\ pc' = "roots"
    /\ UNCHANGED <<sseVars, startVars, writerVars, jobVars, geom, layoutVars,
                   entry, text, limit, newick, nodes, nid, stack, last,
                   current_parent, pending_name, pending_len, err, dist, y>>

\* L = float(tok[1:].strip())
LengthOf(tok) == Float(Strip(Tail(tok)))

\* tok.startswith(":")
TokLen ==
    /\ Proceed
    /\ Tok.tok \notin { << c >> : c \in Delims }
    /\ IsLength(Tok.tok)
    /\ IF last = None
       THEN /\ pending_len' = Some(LengthOf(Tok.tok))
            /\ nodes' = nodes
       ELSE /\ nodes' = [nodes EXCEPT ![last[1]].blen = LengthOf(Tok.tok)]
            /\ pending_len' = pending_len
    /\ i' = Tok.end
    /\ UNCHANGED <<sseVars, startVars, writerVars, jobVars, geom, layoutVars,
                   entry, text, limit, newick, nid, stack, last,
                   current_parent, pending_name, pc, err, dist, y>>

\* any other token: a new node named tok
TokName ==
    /\ Proceed
    /\ Tok.tok \notin { << c >> : c \in Delims }
    /\ ~IsLength(Tok.tok)
    /\ LET u == nid + 1
           n1 == Put(nodes, u, TNode(u, Tok.tok, current_parent))
       IN  /\ nid' = u
           /\ nodes' = IF current_parent # None
                        THEN AppendChild(n1, current_parent[1], u)
                        ELSE n1
           /\ last' = Some(u)
    /\ pending_name' = None
    /\ pending_len' = None
    /\ i' = Tok.end
    /\ UNCHANGED <<sseVars, startVars, writerVars, jobVars, geom, layoutVars,
                   entry, text, limit, newick, stack, current_parent,
                   pc, err, dist, y>>

\* roots = [k for k, v in nodes.items() if v.parent is None]
Roots(tbl) == SelectSeq(Keys(tbl), LAMBDA k : tbl[k].parent = None)

\* a root logic that inserts root0 and leaves the old roots parentless
WithRootUnlinked(tbl) ==
    LET roots == Roots(tbl)
    IN  IF Len(roots) = 1 THEN tbl
        ELSE Put(tbl, root0,
                 [id |-> root0, name |-> <<"r", "o", "o", "t">>,
                  parent |-> None, blen |-> 0, children |-> roots])

\* a root logic that lists the old roots under root0 in reverse order
WithRootReversed(tbl) ==
    LET roots == Roots(tbl)
        rev == [k \in 1..Len(roots) |-> roots[Len(roots) + 1 - k]]
    IN  IF Len(roots) = 1 THEN tbl
        ELSE LET t1 == Put(tbl, root0,
                          [id |-> root0, name |-> <<"r", "o", "o", "t">>,
                           parent |-> None, blen |-> 0, children |-> rev])
             IN  [k \in DOMAIN t1 |->
                     IF \E j \in 1..Len(roots) : roots[j] = k
                     THEN [t1[k] EXCEPT !.parent = Some(root0)]
                     ELSE t1[k]]

\* the table after the root logic, for a non-empty list of roots
WithRoot(tbl) ==
    LET roots == Roots(tbl)
    IN  IF Len(roots) = 1 THEN tbl
        ELSE LET t1 == Put(tbl, root0,
                          [id |-> root0, name |-> <<"r", "o", "o", "t">>,
                           parent |-> None, blen |-> 0, children |-> roots])
             IN  [k \in DOMAIN t1 |->
                     IF \E j \in 1..Len(roots) : roots[j] = k
                     THEN [t1[k] EXCEPT !.parent = Some(root0)]
                     ELSE t1[k]]

\* a parse_newick that returns the table also when it has no root
FinalizeWithoutCheck ==
    /\ pc = "roots"
    /\ pc' = "parsed"
    /\ err' = err
    /\ nodes' = IF Roots(nodes) = <<>> THEN nodes ELSE WithRoot(nodes)
    /\ UNCHANGED <<sseVars, startVars, writerVars, jobVars, geom, layoutVars,
                   entry, text, limit, newick, i, nid, stack, last,
                   current_parent, pending_name, pending_len, dist, y>>

\* the code after the loop: raise on no root, insert root0 above several
Finalize ==
    /\ pc = "roots"
    /\ IF Roots(nodes) = <<>>
       THEN /\ pc' = "raised"
            /\ err' = "ValueError: No root detected"
            /\ nodes' = nodes
       ELSE /\ pc' = "parsed"
            /\ err' = err
            /\ nodes' = WithRoot(nodes)
    /\ UNCHANGED <<sseVars, startVars, writerVars, jobVars, geom, layoutVars,
                   entry, text, limit, newick, i, nid, stack, last,
                   current_parent, pending_name, pending_len, dist, y>>

-----------------------------------------------------------------------------
(* Tree utilities *)

\* the characters of the model in code-point order
AsciiOrder ==
    <<"\t", " ", "\"", "'", "-",
      "0", "1", "2", "3", "4", "5", "6", "7", "8", "9",
      "A", "B", "C", "D", "E", "F", "G", "H", "I", "J", "K", "L", "M",
      "N", "O", "P", "Q", "R", "S", "T", "U", "V", "W", "X", "Y", "Z",
      "a", "b", "c", "d", "e", "f", "g", "h", "i", "j", "k", "l", "m",
      "n", "o", "p", "q", "r", "s", "t", "u", "v", "w", "x", "y", "z">>

Code(c) == CHOOSE k \in 1..Len(AsciiOrder) : AsciiOrder[k] = c

RECURSIVE StrLess(_, _)
\* a < b on Python str
StrLess(a, b) ==
    IF b = <<>> THEN FALSE
    ELSE IF a = <<>> THEN TRUE
    ELSE IF a[1] = b[1] THEN StrLess(Tail(a), Tail(b))
    ELSE Code(a[1]) < Code(b[1])

DigitChar(d) == <<"0", "1", "2", "3", "4", "5", "6", "7", "8", "9">>[d + 1]

RECURSIVE Decimal(_)
Decimal(n) ==
    IF n < 10 THEN << DigitChar(n) >>
    ELSE Append(Decimal(n \div 10), DigitChar(n % 10))

\* the dict key of a node as a str: "n<k>" or "root0"
IdStr(u) ==
    IF u = root0 THEN <<"r", "o", "o", "t", "0">> ELSE <<"n">> \o Decimal(u)

RECURSIVE CollectLeaves(_, _)
RECURSIVE CollectLeavesOf(_, _)
\* _collect_leaves(nodes, u)
CollectLeaves(tbl, u) ==
    IF tbl[u].children = <<>> THEN << u >>
    ELSE CollectLeavesOf(tbl, tbl[u].children)

\* the loop `for c in children: acc.extend(_collect_leaves(nodes, c))`
CollectLeavesOf(tbl, cs) ==
    IF cs = <<>> THEN <<>>
    ELSE CollectLeaves(tbl, Head(cs)) \o CollectLeavesOf(tbl, Tail(cs))

\* _find_root: the first key whose node has no parent
FindRoot(tbl) == Roots(tbl)[1]

\* min_leaf_name(u): min(nodes[x].name or x for x in leaves under u)
MinLeafName(tbl, u) ==
    LET lv == CollectLeaves(tbl, u)
        nm(x) == IF tbl[x].name # <<>> THEN tbl[x].name ELSE IdStr(x)
        names == { nm(lv[k]) : k \in 1..Len(lv) }
    IN  CHOOSE m \in names : \A o \in names : ~StrLess(o, m)

\* a sort that puts the later of two children with equal keys first
SortByMinLeafUnstable(tbl, cs) ==
    LET n == Len(cs)
        key == [k \in 1..n |-> MinLeafName(tbl, cs[k])]
        rank(j) == Cardinality({ k \in 1..n :
                                   \/ StrLess(key[k], key[j])
                                   \/ (key[k] = key[j] /\ k > j) }) + 1
    IN  [p \in 1..n |-> cs[CHOOSE j \in 1..n : rank(j) = p]]

\* list.sort(key=min_leaf_name): stable, ascending by key
SortByMinLeaf(tbl, cs) ==
    LET n == Len(cs)
        key == [k \in 1..n |-> MinLeafName(tbl, cs[k])]
        rank(j) == Cardinality({ k \in 1..n :
                                   \/ StrLess(key[k], key[j])
                                   \/ (key[k] = key[j] /\ k < j) }) + 1
    IN  [p \in 1..n |-> cs[CHOOSE j \in 1..n : rank(j) = p]]

\* _sort_children_for_no_crossing: the key of a child depends only on the
\* set of leaves under it, so the per-node sorts do not interfere
SortChildrenForNoCrossing(tbl) ==
    [u \in DOMAIN tbl |->
        IF tbl[u].children # <<>>
        THEN [tbl[u] EXCEPT !.children = SortByMinLeaf(tbl, @)]
        ELSE tbl[u]]

\* a distance pass that adds the stored length unclamped
ClampMissing(b) == b

\* max(0.0, float(nodes[c].blen))
Clamp(b) == IF b > 0 THEN b ELSE 0

EmptyMap == [k \in {} |-> 0]

RECURSIVE CumdistBelow(_, _, _)
RECURSIVE CumdistOf(_, _, _)
\* the entries compute_cumdist writes for the children cs of a node at
\* distance d, and below them
CumdistBelow(tbl, cs, d) ==
    IF cs = <<>> THEN EmptyMap
    ELSE CumdistOf(tbl, Head(cs), d + Clamp(tbl[Head(cs)].blen))
           @@ CumdistBelow(tbl, Tail(cs), d)

CumdistOf(tbl, u, d) == (u :> d) @@ CumdistBelow(tbl, tbl[u].children, d)

\* compute_cumdist(nodes, root)
ComputeCumdist(tbl, root) == CumdistOf(tbl, root, 0)

-----------------------------------------------------------------------------
(* Exact rationals for the y coordinates *)

RECURSIVE Gcd(_, _)
Gcd(a, b) == IF b = 0 THEN a ELSE Gcd(b, a % b)

Rat(n, d) == LET g == Gcd(n, d) IN [n |-> n \div g, d |-> d \div g]

RatAdd(p, q) == Rat(p.n * q.d + q.n * p.d, p.d * q.d)

RECURSIVE RatSum(_)
RatSum(rs) == IF rs = <<>> THEN Rat(0, 1) ELSE RatAdd(Head(rs), RatSum(Tail(rs)))

\* sum(rs) / len(rs)
RatMean(rs) == LET t == RatSum(rs) IN Rat(t.n, t.d * Len(rs))

-----------------------------------------------------------------------------
(* assign_y_equal_leaf_spacing *)

\* a leaf numbering that starts at 1
LeafYFromOne(leaves, step, u) ==
    LET k == CHOOSE j \in 1..Len(leaves) : leaves[j] = u
    IN  Rat(k * step, 1)

\* y = {lf: i * leaf_step for i, lf in enumerate(leaves)}
LeafY(leaves, step, u) ==
    LET k == CHOOSE j \in 1..Len(leaves) : leaves[j] = u
    IN  Rat((k - 1) * step, 1)

RECURSIVE NodeY(_, _, _, _)
\* the post-order pass: a node with children gets the mean of their y
NodeY(tbl, leaves, step, u) ==
    IF tbl[u].children # <<>>
    THEN RatMean([k \in 1..Len(tbl[u].children) |->
                     NodeY(tbl, leaves, step, tbl[u].children[k])])
    ELSE LeafY(leaves, step, u)

\* the y map, computed on the table whose children are already sorted
AssignY(tbl, step) ==
    LET leaves == CollectLeaves(tbl, FindRoot(tbl))
    IN  [u \in DOMAIN tbl |-> NodeY(tbl, leaves, step, u)]

-----------------------------------------------------------------------------
(* build_graph and the first stage of build_display_graph *)

\* parts = [p.strip() for p in newick.split(";") if p.strip()]
Parts(s) ==
    LET raw == Split(s, ";")
        stripped == [k \in 1..Len(raw) |-> Strip(raw[k])]
    IN  SelectSeq(stripped, LAMBDA p : p # <<>>)

\* a build_graph that picks the last tree of the text
LastTree(s) == Append(Parts(s)[Len(Parts(s))], ";")

\* tree_s = parts[0] + ";"
FirstTree(s) == Append(Parts(s)[1], ";")

\* build_graph up to the call of parse_newick.  read_newick_input returns
\* the stripped text.  The limit it passes, MAX_NODES = 10^11, is above the
\* size of every table of the model, so the cut-off cannot fire: the call
\* is modelled with no limit.
BuildGraph ==
    /\ pc = "build_graph"
    /\ IF Parts(Strip(text)) = <<>>
       THEN /\ pc' = "raised"
            /\ err' = "ValueError: No Newick tree found"
            /\ newick' = newick
       ELSE /\ pc' = "parse"
            /\ err' = err
            /\ newick' = FirstTree(Strip(text))
    /\ UNCHANGED <<sseVars, startVars, writerVars, jobVars, geom, layoutVars,
                   entry, text, limit, i, nodes, nid, stack, last,
                   current_parent, pending_name, pending_len, dist, y>>

\* build_display_graph, lines 296-299: root, cumulative distances, then
\* the child sort and the y assignment
AssignCoordinates ==
    /\ pc = "parsed"
    /\ dist' = ComputeCumdist(nodes, FindRoot(nodes))
    /\ nodes' = SortChildrenForNoCrossing(nodes)
    /\ y' = AssignY(nodes', geom.leaf_step)
    /\ pc' = "y_assigned"
    /\ UNCHANGED <<sseVars, startVars, writerVars, jobVars, geom, layoutVars,
                   entry, text, limit, newick, i, nid, stack, last,
                   current_parent, pending_name, pending_len, err>>

-----------------------------------------------------------------------------
(* build_display_graph: stems *)

\* sorted(S) for a set of numbers
RECURSIVE Sorted(_)
Sorted(xs) ==
    IF xs = {} THEN <<>>
    ELSE LET m == CHOOSE a \in xs : \A b \in xs : b <= a
         IN  Append(Sorted(xs \ {m}), m)

\* dist_px[u] + parent_stub
RawStem(d, g, u) == d[u] * g.x_scale + g.parent_stub

\* raw_stems = sorted({dist_px[u] + parent_stub for u in nodes})
RawStems(tbl, d, g) == Sorted({ RawStem(d, g, u) : u \in DOMAIN tbl })

\* a stem pass that keeps every stem where it is
SpreadNever(sx, prev, gap) == sx

\* max(sx, last + float(min_level_gap))
SpreadOne(sx, prev, gap) == IF sx > prev + gap THEN sx ELSE prev + gap

RECURSIVE SpreadStems(_, _)
\* the loop filling spread_stems
SpreadStems(raw, gap) ==
    LET n == Len(raw)
        before == SpreadStems(SubSeq(raw, 1, n - 1), gap)
    IN  IF n = 0 THEN <<>>
        ELSE IF n = 1 THEN << raw[1] >>
        ELSE Append(before, SpreadOne(raw[n], before[n - 1], gap))

\* stem_map = {q(o): s for o, s in zip(raw_stems, spread_stems)}
StemMap(raw, spread) ==
    [o \in { raw[j] : j \in 1..Len(raw) } |->
        spread[CHOOSE j \in 1..Len(raw) :
                  raw[j] = o /\ \A h \in j + 1..Len(raw) : raw[h] # o]]

\* stem_x(u)
stem_x(u) == stem_map[RawStem(dist, geom, u)]

\* leaves = [k for k, v in nodes.items() if not v.children]
Leaves(tbl) == SelectSeq(Keys(tbl), LAMBDA u : tbl[u].children = <<>>)

\* lines 303-329: the stems and the empty tables
ComputeStems ==
    /\ pc = "y_assigned"
    /\ raw_stems' = RawStems(nodes, dist, geom)
    /\ spread_stems' = SpreadStems(raw_stems', geom.min_level_gap)
    /\ stem_map' = StemMap(raw_stems', spread_stems')
    /\ pts' = <<>>
    /\ links' = <<>>
    /\ node_id_actual' = EmptyMap
    /\ next_id' = 0
    /\ point_cache' = EmptyMap
    /\ link_cache' = {}
    /\ cursor' = 1
    /\ pc' = "node_points"
    /\ UNCHANGED <<sseVars, startVars, writerVars, jobVars, entry, text, limit, newick, i, nodes, nid, stack, last,
                   current_parent, pending_name, pending_len, err, dist, y,
                   geom, id_to_idx, x_tipline>>

-----------------------------------------------------------------------------
(* build_display_graph: add_point and add_link *)

\* the number of millionths in one: q keeps 6 decimals
Micro == 1000000

\* q(v) = float(f"{v:.6f}") on a y coordinate v >= 0: the nearest whole
\* number of millionths, a tie going to the even one
q(v) ==
    IF Micro % v.d = 0 THEN v
    ELSE LET whole == v.n \div v.d
             t == (v.n % v.d) * Micro
             a == t \div v.d
             r == t % v.d
             m == IF 2 * r > v.d THEN a + 1
                  ELSE IF 2 * r < v.d THEN a
                  ELSE IF a % 2 = 0 THEN a ELSE a + 1
         IN  RatAdd(Rat(whole, 1), Rat(m, Micro))

\* a height test that takes every child for displaced
FartherAlways(a, b) == TRUE

\* a height test that takes every child for level with its parent
FartherNever(a, b) == FALSE

\* abs(a - b) > EPS with EPS = 1e-6
FartherThanEps(a, b) ==
    LET num == a.n * b.d - b.n * a.d
        gap == Rat(IF num < 0 THEN 0 - num ELSE num, a.d * b.d)
    IN  IF gap.n >= gap.d THEN TRUE ELSE gap.n * Micro > gap.d

\* the default size of a point of a kind
SizeOf(kind) ==
    CASE kind = "leaf" -> SIZE_LEAF_REAL
      [] kind = "leaf_marker" -> SIZE_LEAF_MARKER
      [] kind = "internal" -> SIZE_INTERNAL
      [] kind = "bend" -> SIZE_BEND
      [] OTHER -> 4

\* the default color of a point of a kind
ColorOf(kind) ==
    CASE kind \in {"leaf", "leaf_marker"} -> COLOR_LEAF
      [] kind = "internal" -> COLOR_INTERNAL
      [] OTHER -> COLOR_BEND

\* the tables add_point and add_link work on; pid is the value add_point
\* returned last
Tables ==
    [pts |-> pts, next_id |-> next_id, point_cache |-> point_cache,
     links |-> links, link_cache |-> link_cache, pid |-> 0 - 1]

\* an add_point that takes a fresh id before it looks a bend up
add_pointCountingHits(t, kind, x, yv, label, color, size, cache_bend) ==
    LET yq == q(yv)
        key == <<kind, x, yq>>
        cached == cache_bend /\ kind = "bend"
        pid == t.next_id
        row == [id |-> pid, x |-> x, y |-> yq,
                size |-> IF size = None THEN SizeOf(kind) ELSE size[1],
                color |-> IF color = None THEN ColorOf(kind) ELSE color[1],
                label |-> label, kind |-> kind]
    IN  IF cached /\ key \in DOMAIN t.point_cache
        THEN [t EXCEPT !.pid = t.point_cache[key], !.next_id = pid + 1]
        ELSE [t EXCEPT !.pid = pid,
                       !.next_id = pid + 1,
                       !.pts = Append(@, row),
                       !.point_cache = IF cached THEN (key :> pid) @@ @ ELSE @]

\* an add_point without the bend cache
add_pointUncached(t, kind, x, yv, label, color, size, cache_bend) ==
    LET pid == t.next_id
        row == [id |-> pid, x |-> x, y |-> q(yv),
                size |-> IF size = None THEN SizeOf(kind) ELSE size[1],
                color |-> IF color = None THEN ColorOf(kind) ELSE color[1],
                label |-> label, kind |-> kind]
    IN  [t EXCEPT !.pid = pid, !.next_id = pid + 1, !.pts = Append(@, row)]

\* add_point(kind, x, yv, label=, color=, size=, cache_bend=)
add_point(t, kind, x, yv, label, color, size, cache_bend) ==
    LET xq == x
        yq == q(yv)
        key == <<kind, xq, yq>>
        cached == cache_bend /\ kind = "bend"
        pid == t.next_id
        row == [id |-> pid, x |-> xq, y |-> yq,
                size |-> IF size = None THEN SizeOf(kind) ELSE size[1],
                color |-> IF color = None THEN ColorOf(kind) ELSE color[1],
                label |-> label, kind |-> kind]
    IN  IF cached /\ key \in DOMAIN t.point_cache
        THEN [t EXCEPT !.pid = t.point_cache[key]]
        ELSE [t EXCEPT !.pid = pid,
                       !.next_id = pid + 1,
                       !.pts = Append(@, row),
                       !.point_cache = IF cached THEN (key :> pid) @@ @ ELSE @]

\* an add_link that appends whatever it is given
add_linkAlways(t, src, tgt) ==
    [t EXCEPT !.link_cache = @ \cup {<<src, tgt>>},
              !.links = Append(@, [source |-> src, target |-> tgt,
                                   color |-> COLOR_LINK])]

\* add_link(s, t); no caller passes a color
add_link(t, src, tgt) ==
    IF <<src, tgt>> \in t.link_cache THEN t
    ELSE [t EXCEPT !.link_cache = @ \cup {<<src, tgt>>},
                   !.links = Append(@, [source |-> src, target |-> tgt,
                                        color |-> COLOR_LINK])]

\* the tables of t written back to the variables
Store(t) ==
    /\ pts' = t.pts
    /\ next_id' = t.next_id
    /\ point_cache' = t.point_cache
    /\ links' = t.links
    /\ link_cache' = t.link_cache

-----------------------------------------------------------------------------
(* build_display_graph: points, edges, leaf markers *)

\* pts[id_to_idx[pid]]
Row(rows, pid) == rows[id_to_idx[pid] + 1]

\* one round of `for u, v in nodes.items()` (lines 388-397): the point of
\* a logical node
CreateNodePoint ==
    /\ pc = "node_points"
    /\ cursor <= Len(Keys(nodes))
    /\ LET u == Keys(nodes)[cursor]
           v == nodes[u]
           kind == IF v.children = <<>> THEN "leaf" ELSE "internal"
           label == IF v.name # <<>> THEN v.name
                    ELSE IF kind = "leaf" THEN IdStr(u) ELSE <<>>
           ex == stem_x(u)
           node_x_display == ex - PARENT_STUB_PX
           t == add_point(Tables, kind, node_x_display, y[u], label,
                          None, None, FALSE)
       IN  /\ Store(t)
           /\ node_id_actual' = (u :> t.pid) @@ node_id_actual
    /\ cursor' = cursor + 1
    /\ UNCHANGED <<sseVars, startVars, writerVars, jobVars, entry, text, limit, newick, i, nodes, nid, stack, last,
                   current_parent, pending_name, pending_len, pc, err, dist,
                   y, geom, raw_stems, spread_stems, stem_map, id_to_idx,
                   x_tipline>>

\* id_to_idx = {row["id"]: i for i, row in enumerate(pts)}
IndexPoints ==
    /\ pc = "node_points"
    /\ cursor > Len(Keys(nodes))
    /\ id_to_idx' = [p \in { pts[j].id : j \in 1..Len(pts) } |->
                        (CHOOSE j \in 1..Len(pts) :
                            pts[j].id = p
                            /\ \A h \in j + 1..Len(pts) : pts[h].id # p) - 1]
    /\ cursor' = 1
    /\ pc' = "edges"
    /\ UNCHANGED <<sseVars, startVars, writerVars, jobVars, entry, text, limit, newick, i, nodes, nid, stack, last,
                   current_parent, pending_name, pending_len, err, dist, y,
                   geom, raw_stems, spread_stems, stem_map, pts, links,
                   node_id_actual, next_id, point_cache, link_cache,
                   x_tipline>>

RECURSIVE EdgesOf(_, _)
\* the (u, c) pairs in the order the nested loops of lines 406-409 visit
EdgesOf(tbl, us) ==
    IF us = <<>> THEN <<>>
    ELSE [j \in 1..Len(tbl[Head(us)].children) |->
             <<Head(us), tbl[Head(us)].children[j]>>]
         \o EdgesOf(tbl, Tail(us))

Edges(tbl) == EdgesOf(tbl, Keys(tbl))

\* one round of `for c in v.children` (lines 410-425): the child moves to
\* its weighted x and the orthogonal path from u to c is emitted
EmitEdge ==
    /\ pc = "edges"
    /\ cursor <= Len(Edges(nodes))
    /\ LET u == Edges(nodes)[cursor][1]
           c == Edges(nodes)[cursor][2]
           ex == stem_x(u)
           y_parent == y[u]
           y_child == y[c]
           true_len_px == Clamp(nodes[c].blen) * geom.x_scale
           child_pid == node_id_actual[c]
           moved == [pts EXCEPT ![id_to_idx[child_pid] + 1].x =
                                    ex + WEIGHTED_STUB_PX + true_len_px]
           t1 == add_point([Tables EXCEPT !.pts = moved], "bend", ex,
                           y_parent, <<>>, None, None, TRUE)
           elbow_top == t1.pid
           t2 == add_link(t1, node_id_actual[u], elbow_top)
           t3 == add_point(t2, "bend", ex, y_child, <<>>, None, None, TRUE)
           elbow_bot == t3.pid
       IN  IF FartherThanEps(y_parent, y_child)
           THEN Store(add_link(add_link(t3, elbow_top, elbow_bot),
                               elbow_bot, child_pid))
           ELSE Store(add_link(t2, elbow_top, child_pid))
    /\ cursor' = cursor + 1
    /\ UNCHANGED <<sseVars, startVars, writerVars, jobVars, entry, text, limit, newick, i, nodes, nid, stack, last,
                   current_parent, pending_name, pending_len, pc, err, dist,
                   y, geom, raw_stems, spread_stems, stem_map,
                   node_id_actual, id_to_idx, x_tipline>>

\* a tip line taken from the nearest leaf
MinLeafX(rows, lvs) ==
    LET xs == { Row(rows, node_id_actual[lvs[j]]).x : j \in 1..Len(lvs) }
    IN  IF lvs = <<>> THEN 0
        ELSE CHOOSE a \in xs : \A b \in xs : a <= b

\* max(pts[id_to_idx[node_id_actual[lf]]]["x"] for lf in leaves)
MaxLeafX(rows, lvs) ==
    LET xs == { Row(rows, node_id_actual[lvs[j]]).x : j \in 1..Len(lvs) }
    IN  IF lvs = <<>> THEN 0
        ELSE CHOOSE a \in xs : \A b \in xs : b <= a

\* x_tipline = max_leaf_x + tip_pad
PlaceTipline ==
    /\ pc = "edges"
    /\ cursor > Len(Edges(nodes))
    /\ x_tipline' = MaxLeafX(pts, Leaves(nodes)) + geom.tip_pad
    /\ cursor' = 1
    /\ pc' = "markers"
    /\ UNCHANGED <<sseVars, startVars, writerVars, jobVars, entry, text, limit, newick, i, nodes, nid, stack, last,
                   current_parent, pending_name, pending_len, err, dist, y,
                   geom, raw_stems, spread_stems, stem_map, pts, links,
                   node_id_actual, next_id, point_cache, link_cache,
                   id_to_idx>>

\* one round of `for lf in leaves` (lines 434-441): the marker of a leaf
\* and its link to the leaf point
AddLeafMarker ==
    /\ pc = "markers"
    /\ cursor <= Len(Leaves(nodes))
    /\ LET lf == Leaves(nodes)[cursor]
           leaf_row == Row(pts, node_id_actual[lf])
           t == add_point(Tables, "leaf_marker", x_tipline, leaf_row.y,
                          leaf_row.label, Some(COLOR_LEAF),
                          Some(SIZE_LEAF_MARKER), FALSE)
       IN  Store(add_link(t, t.pid, leaf_row.id))
    /\ cursor' = cursor + 1
    /\ UNCHANGED <<sseVars, startVars, writerVars, jobVars, entry, text, limit, newick, i, nodes, nid, stack, last,
                   current_parent, pending_name, pending_len, pc, err, dist,
                   y, geom, raw_stems, spread_stems, stem_map,
                   node_id_actual, id_to_idx, x_tipline>>

\* nodes_df = pd.DataFrame(pts); links_df = pd.DataFrame(links); return
ReturnGraph ==
    /\ pc = "markers"
    /\ cursor > Len(Leaves(nodes))
    /\ pc' = "graph"
    /\ UNCHANGED <<sseVars, startVars, writerVars, jobVars, entry, text, limit, newick, i, nodes, nid, stack, last,
                   current_parent, pending_name, pending_len, err, dist, y,
                   geom, layoutVars>>

-----------------------------------------------------------------------------
(* The pipeline *)

\* no web application is running
\* no call of start_graph_job is running
NoCalls == calls = <<>>

\* no call of /api/graph/stream is running
NoStream ==
    /\ progress_queue = <<>>
    /\ computation_done = FALSE
    /\ result_storage = [nodes |-> None, links |-> None, ready |-> FALSE]
    /\ compute = [pc |-> "new", reported |-> 0]
    /\ generate = [pc |-> "idle", waited |-> 0, at |-> 0]
    /\ yielded = <<>>

NoService ==
    /\ impl = "none"
    /\ clock = 0
    /\ JOBS = {}
    /\ jobs = EmptyMap
    /\ files = {}
    /\ streams = <<>>
    /\ response = [kind |-> "none"]

Init ==
    /\ entry \in {"parse_newick", "build_graph", "build_display_graph"}
    /\ text \in Inputs
    /\ limit \in IF entry = "parse_newick" THEN Limits ELSE { None }
    /\ geom \in CASE entry = "build_graph" -> { params }
               [] entry = "parse_newick" -> { DefaultGeometry }
               [] entry = "build_display_graph" -> Geometries
    /\ newick = IF entry = "build_graph" THEN <<>> ELSE text
    /\ pc = IF entry = "build_graph" THEN "build_graph" ELSE "parse"
    /\ i = 1
    /\ nodes = EmptyMap
    /\ nid = 0
    /\ stack = <<>>
    /\ last = None
    /\ current_parent = None
    /\ pending_name = None
    /\ pending_len = None
    /\ err = ""
    /\ dist = EmptyMap
    /\ y = EmptyMap
    /\ raw_stems = <<>>
    /\ spread_stems = <<>>
    /\ stem_map = EmptyMap
    /\ pts = <<>>
    /\ links = <<>>
    /\ node_id_actual = EmptyMap
    /\ next_id = 0
    /\ point_cache = EmptyMap
    /\ link_cache = {}
    /\ id_to_idx = EmptyMap
    /\ x_tipline = 0
    /\ cursor = 0
    /\ buf = <<>>
    /\ offset = 0
    /\ NoCalls
    /\ NoStream
    /\ NoService

Next ==
    \/ BuildGraph
    \/ TokenizeRaise
    \/ EndOfTokens
    \/ HitLimit
    \/ TokOpen
    \/ TokComma
    \/ TokClose
    \/ TokCloseRaise
    \/ TokSemi
    \/ TokLen
    \/ TokName
    \/ Finalize
    \/ AssignCoordinates
    \/ ComputeStems
    \/ CreateNodePoint
    \/ IndexPoints
    \/ EmitEdge
    \/ PlaceTipline
    \/ AddLeafMarker
    \/ ReturnGraph

Spec == Init /\ [][Next]_vars

-----------------------------------------------------------------------------
(* build_display_graph called with a table of the caller *)

\* the branch lengths of the tables below
BranchLengths == {0, 1, 5}

\* a table as a caller of build_display_graph may build it from TNode
\* objects: a root with the leaf B and a group at distance a, which holds a
\* group at distance b, which holds the leaf A at distance c
CallerTree(a, b, c) ==
    <<[TNode(1, <<>>, None) EXCEPT !.children = <<2, 5>>],
      [TNode(2, <<>>, Some(1)) EXCEPT !.blen = a, !.children = <<3>>],
      [TNode(3, <<>>, Some(2)) EXCEPT !.blen = b, !.children = <<4>>],
      [TNode(4, <<"A">>, Some(3)) EXCEPT !.blen = c],
      [TNode(5, <<"B">>, Some(1)) EXCEPT !.blen = 1]>>

CallerTrees == { CallerTree(a, b, c) : a, b, c \in BranchLengths }

\* build_display_graph(nodes, ...) is entered with the caller's table
LayoutInit ==
    /\ entry = "build_display_graph"
    /\ text = <<>>
    /\ limit = None
    /\ geom \in Geometries \cup { DefaultGeometry }
    /\ newick = <<>>
    /\ pc = "parsed"
    /\ i = 1
    /\ nodes \in CallerTrees
    /\ nid = Len(nodes)
    /\ stack = <<>>
    /\ last = None
    /\ current_parent = None
    /\ pending_name = None
    /\ pending_len = None
    /\ err = ""
    /\ dist = EmptyMap
    /\ y = EmptyMap
    /\ raw_stems = <<>>
    /\ spread_stems = <<>>
    /\ stem_map = EmptyMap
    /\ pts = <<>>
    /\ links = <<>>
    /\ node_id_actual = EmptyMap
    /\ next_id = 0
    /\ point_cache = EmptyMap
    /\ link_cache = {}
    /\ id_to_idx = EmptyMap
    /\ x_tipline = 0
    /\ cursor = 0
    /\ buf = <<>>
    /\ offset = 0
    /\ NoCalls
    /\ NoStream
    /\ NoService

LayoutNext ==
    \/ AssignCoordinates
    \/ ComputeStems
    \/ CreateNodePoint
    \/ IndexPoints
    \/ EmitEdge
    \/ PlaceTipline
    \/ AddLeafMarker
    \/ ReturnGraph

LayoutSpec == LayoutInit /\ [][LayoutNext]_vars

-----------------------------------------------------------------------------
(* The worker after parse and layout: render, integer ids, batched writer *)
(* src/deprecated/app.py lines 232-301 and src/tree-web/app_custom.py      *)
(* lines 133-206 hold the same statements.  The post_progress calls among  *)
(* them put events on the queue of the job, which JobSpec follows; here    *)
(* the tables and the written text are followed.                           *)

\* NODE_SIZE_SCALE of tree_algo.py
NODE_SIZE_SCALE == 2

\* scale_factor = 0.3 of render
scale_factor == Rat(3, 10)

\* a coordinate times scale_factor; the product is kept as its two factors,
\* v having up to nine digits already
Scaled(v) == [of |-> v, times |-> scale_factor]

\* size_by_kind(kind) of render
size_by_kind(kind) ==
    CASE kind = "leaf_marker" -> 24
      [] kind = "leaf" -> 18
      [] kind = "internal" -> 10
      [] kind = "bend" -> 3
      [] OTHER -> 8

\* render(nodes_df, links_df) as build_graph calls it: the columns are cast,
\* the sizes and the coordinates scaled, and pixel_size is added
Render ==
    /\ entry = "build_graph"
    /\ pc = "graph"
    /\ pts' = [j \in 1..Len(pts) |->
                  [id |-> pts[j].id,
                   x |-> Scaled(Rat(pts[j].x, 1)),
                   y |-> Scaled(pts[j].y),
                   size |-> pts[j].size * NODE_SIZE_SCALE,
                   color |-> pts[j].color,
                   label |-> pts[j].label,
                   kind |-> pts[j].kind,
                   pixel_size |-> size_by_kind(pts[j].kind)]]
    /\ pc' = "rendered"
    /\ UNCHANGED <<sseVars, startVars, writerVars, jobVars, entry, text, limit, newick, i, nodes, nid,
                   stack, last, current_parent, pending_name, pending_len,
                   err, dist, y, geom, raw_stems, spread_stems, stem_map,
                   links, node_id_actual, next_id, point_cache, link_cache,
                   id_to_idx, x_tipline, cursor>>

\* nodes_df["id"] = nodes_df.index when the table has no id column
WithIds(rows) ==
    IF rows # <<>> /\ "id" \notin DOMAIN rows[1]
    THEN [j \in 1..Len(rows) |-> [id |-> j - 1] @@ rows[j]]
    ELSE rows

\* an id map that counts the rows from one
id_mapFromOne(rows) ==
    [s \in { Decimal(rows[j].id) : j \in 1..Len(rows) } |->
        CHOOSE j \in 1..Len(rows) :
            /\ Decimal(rows[j].id) = s
            /\ \A h \in j + 1..Len(rows) : Decimal(rows[h].id) # s]

\* id_map = {str(nid): i for i, nid in enumerate(nodes_df["id"])}: a later
\* row of the same id replaces the earlier one
id_map(rows) ==
    [s \in { Decimal(rows[j].id) : j \in 1..Len(rows) } |->
        (CHOOSE j \in 1..Len(rows) :
            /\ Decimal(rows[j].id) = s
            /\ \A h \in j + 1..Len(rows) : Decimal(rows[h].id) # s) - 1]

\* .astype(str).map(id_map).fillna(-1).astype(int) on one endpoint
Remapped(m, v) == IF Decimal(v) \in DOMAIN m THEN m[Decimal(v)] ELSE 0 - 1

\* lines 238-251 of the worker: the links are rewritten through the id map
\* and the nodes are numbered by their row
RemapIds ==
    /\ pc = "rendered"
    /\ LET rows == WithIds(pts)
           m == id_map(rows)
       IN  /\ links' = [j \in 1..Len(links) |->
                           [links[j] EXCEPT !.source = Remapped(m, @),
                                            !.target = Remapped(m, @)]]
           /\ pts' = [j \in 1..Len(rows) |-> [rows[j] EXCEPT !.id = j - 1]]
    /\ pc' = "remapped"
    /\ UNCHANGED <<sseVars, startVars, writerVars, jobVars, entry, text, limit, newick, i, nodes, nid,
                   stack, last, current_parent, pending_name, pending_len,
                   err, dist, y, geom, raw_stems, spread_stems, stem_map,
                   node_id_actual, next_id, point_cache, link_cache,
                   id_to_idx, x_tipline, cursor>>

\* the number of records of one batch; the source has 50000
chunk_size == 2

\* the characters of a literal
Chars(s) == [j \in 1..Len(s) |-> [ch |-> s[j]]]

\* the text json.dumps gives for one record, taken as one piece
Obj(row) == [obj |-> row]

RECURSIVE Joined(_)
\* ", ".join(...) over the texts of the records
Joined(rows) ==
    IF rows = <<>> THEN <<>>
    ELSE IF Len(rows) = 1 THEN <<Obj(rows[1])>>
    ELSE <<Obj(Head(rows))>> \o Chars(<<",", " ">>) \o Joined(Tail(rows))

\* json.dumps(chunk) for a list of records
dumps(rows) == Chars(<<"[">>) \o Joined(rows) \o Chars(<<"]">>)

\* df.iloc[at:at + chunk_size].to_dict("records")
Chunk(rows, at) ==
    SubSeq(rows, at + 1, IF at + chunk_size < Len(rows) THEN at + chunk_size
                         ELSE Len(rows))

\* a batch written with a comma in front of it whatever its place
BatchAlwaysComma(rows, at) ==
    LET json_str == dumps(Chunk(rows, at))
        inner == SubSeq(json_str, 2, Len(json_str) - 1)
    IN  Chars(<<",">>) \o inner

\* one round of `for i in range(0, total, chunk_size)`: what it writes
Batch(rows, at) ==
    LET json_str == dumps(Chunk(rows, at))
        inner == SubSeq(json_str, 2, Len(json_str) - 1)
    IN  (IF at > 0 /\ Len(inner) > 0 THEN Chars(<<",">>) ELSE <<>>) \o inner

\* '{"nodes":['
OpenText == <<"{", "\"", "n", "o", "d", "e", "s", "\"", ":", "[">>

\* '],"links":['
BetweenText == <<"]", ",", "\"", "l", "i", "n", "k", "s", "\"", ":", "[">>

\* ']}'
CloseText == <<"]", "}">>

\* write('{"nodes":[')
WriteOpen ==
    /\ pc = "remapped"
    /\ buf' = Chars(OpenText)
    /\ offset' = 0
    /\ pc' = "nodes"
    /\ UNCHANGED <<sseVars, startVars, jobVars, entry, text, limit, newick, i, nodes, nid,
                   stack, last, current_parent, pending_name, pending_len,
                   err, dist, y, geom, raw_stems, spread_stems, stem_map,
                   pts, links, node_id_actual, next_id, point_cache,
                   link_cache, id_to_idx, x_tipline, cursor>>

\* one batch of the node records
WriteNodes ==
    /\ pc = "nodes"
    /\ offset < Len(pts)
    /\ buf' = buf \o Batch(pts, offset)
    /\ offset' = offset + chunk_size
    /\ UNCHANGED <<sseVars, startVars, jobVars, pipelineVars>>

\* write('],"links":[') after the last batch of nodes
WriteBetween ==
    /\ pc = "nodes"
    /\ offset >= Len(pts)
    /\ buf' = buf \o Chars(BetweenText)
    /\ offset' = 0
    /\ pc' = "links"
    /\ UNCHANGED <<sseVars, startVars, jobVars, entry, text, limit, newick, i, nodes, nid,
                   stack, last, current_parent, pending_name, pending_len,
                   err, dist, y, geom, raw_stems, spread_stems, stem_map,
                   pts, links, node_id_actual, next_id, point_cache,
                   link_cache, id_to_idx, x_tipline, cursor>>

\* one batch of the link records
WriteLinks ==
    /\ pc = "links"
    /\ offset < Len(links)
    /\ buf' = buf \o Batch(links, offset)
    /\ offset' = offset + chunk_size
    /\ UNCHANGED <<sseVars, startVars, jobVars, pipelineVars>>

\* write(']}') after the last batch of links
WriteClose ==
    /\ pc = "links"
    /\ offset >= Len(links)
    /\ buf' = buf \o Chars(CloseText)
    /\ pc' = "written"
    /\ UNCHANGED offset
    /\ UNCHANGED <<sseVars, startVars, jobVars, entry, text, limit, newick, i, nodes, nid,
                   stack, last, current_parent, pending_name, pending_len,
                   err, dist, y, geom, raw_stems, spread_stems, stem_map,
                   pts, links, node_id_actual, next_id, point_cache,
                   link_cache, id_to_idx, x_tipline, cursor>>

\* the ids and the endpoints of the tables below
NodeIds == {0, 7}
Endpoints == {<<0, 7>>, <<7, 3>>, <<3, 0>>}

\* the tables of at most MaxRows rows each: the ids may repeat and an
\* endpoint may name no row of the node table
NodeTables ==
    UNION { [1..n -> { [id |-> a] : a \in NodeIds }] : n \in 0..MaxRows }
LinkTables ==
    UNION { [1..n -> { [source |-> e[1], target |-> e[2]] : e \in Endpoints }] :
              n \in 0..MaxRows }

\* the worker holds two tables and is about to remap them
TablesInit ==
    /\ entry = "compute"
    /\ text = <<>>
    /\ limit = None
    /\ geom = DefaultGeometry
    /\ newick = <<>>
    /\ pc = "rendered"
    /\ i = 1
    /\ nodes = EmptyMap
    /\ nid = 0
    /\ stack = <<>>
    /\ last = None
    /\ current_parent = None
    /\ pending_name = None
    /\ pending_len = None
    /\ err = ""
    /\ dist = EmptyMap
    /\ y = EmptyMap
    /\ raw_stems = <<>>
    /\ spread_stems = <<>>
    /\ stem_map = EmptyMap
    /\ pts \in NodeTables
    /\ links \in LinkTables
    /\ node_id_actual = EmptyMap
    /\ next_id = 0
    /\ point_cache = EmptyMap
    /\ link_cache = {}
    /\ id_to_idx = EmptyMap
    /\ x_tipline = 0
    /\ cursor = 0
    /\ buf = <<>>
    /\ offset = 0
    /\ NoCalls
    /\ NoStream
    /\ NoService

ComputeInit == Init \/ TablesInit

ComputeNext ==
    \/ Next
    \/ Render
    \/ RemapIds
    \/ WriteOpen
    \/ WriteNodes
    \/ WriteBetween
    \/ WriteLinks
    \/ WriteClose

\* the worker from the text of the tree, or from two tables, to the end of
\* the written document
ComputeSpec == ComputeInit /\ [][ComputeNext]_vars

-----------------------------------------------------------------------------
(* The job orchestrator: Job *)

\* job.created_at older than this many seconds is evicted
JobMaxAge == 3600

\* the maxsize of queue.Queue(): 0, which the queue takes for "no limit"
maxsize == 0

\* the text of the TypeError that build_graph(path, progress_callback=...)
\* raises: build_graph has the one parameter progress_callback
TypeErrorText == "build_graph() got multiple values for argument 'progress_callback'"

\* the text of the ValueError of build_graph for a file without a tree
NoTreeText == "No Newick tree found."

\* the bytes of the gzipped JSON document of a graph
Payload == "gzip({nodes, links})"

\* the files a client uploads to start_graph_job of app_custom
Uploads == { Text_TwoLeaf }

\* os.path.join(TEMP_DIR, f"input_{job.id}_{file.filename}")
InputPath(j) == <<"temp_uploads", "input", j>>

\* no call of get_job_result was answered by the last step
NoResponse == [kind |-> "none", body |-> "", job |-> 0]

\* {"stage": stage, "progress": progress}
Event(stage, progress) == [stage |-> stage, progress |-> progress]

\* Job(): the fields of both modules; `thread` is the control point of the
\* worker thread
Job(t) ==
    [created_at |-> t, progress_queue |-> <<>>, result_path |-> None,
     result |-> None, error |-> None, done |-> FALSE, thread |-> "new",
     temp_input_path |-> None, upload |-> None]

\* queue.Full would be raised: only a queue with maxsize > 0 fills up
Full(queue) == maxsize > 0 /\ Len(queue) >= maxsize

\* job.post_progress(stage, progress): put_nowait in app_custom,
\* put(timeout=0.1) in deprecated; queue.Full is swallowed by both
post_progress(jr, stage, progress) ==
    IF Full(jr.progress_queue) THEN jr
    ELSE [jr EXCEPT !.progress_queue = Append(@, Event(stage, progress))]

RECURSIVE PostAll(_, _)
\* post_progress for each event of a sequence, in order
PostAll(jr, evs) ==
    IF evs = <<>> THEN jr
    ELSE PostAll(post_progress(jr, Head(evs).stage, Head(evs).progress),
                 Tail(evs))

-----------------------------------------------------------------------------
(* The job orchestrator: Start and the worker *)

\* the jobs _cleanup_old_jobs finds too old
Old == { j \in JOBS : clock - jobs[j].created_at > JobMaxAge }

\* the paths a set of jobs holds: temp_input_path and result_path
Scratch(js) ==
    { jobs[j].temp_input_path[1] : j \in { o \in js : jobs[o].temp_input_path # None } }
    \cup { jobs[j].result_path[1] : j \in { o \in js : jobs[o].result_path # None } }

\* an eviction that leaves the files of the old jobs on disk
CleanupKeepingFiles(fs) == fs

\* the files left by _cleanup_old_jobs: app_custom removes the input and
\* result files of the old jobs, deprecated has no files
CleanupFiles(fs) == IF impl = "app_custom" THEN fs \ Scratch(Old) ELSE fs

\* time passes, by one second more than JobMaxAge at a time: time.time()
\* is read by Job() and by _cleanup_old_jobs
Tick ==
    /\ clock < MaxTicks * (JobMaxAge + 1)
    /\ clock' = clock + JobMaxAge + 1
    /\ UNCHANGED <<sseVars, startVars, writerVars, pipelineVars, impl, JOBS, jobs, files, streams>>
    /\ response' = NoResponse

\* start_graph_job: evict, register the job, store the upload, start the
\* worker thread
Start ==
    /\ Cardinality(DOMAIN jobs) < MaxJobs
    /\ \E up \in IF impl = "app_custom" THEN Uploads ELSE { None } :
         LET j == Cardinality(DOMAIN jobs) + 1
             made == IF impl = "app_custom"
                     THEN [Job(clock) EXCEPT !.temp_input_path = Some(InputPath(j)),
                                             !.upload = up,
                                             !.thread = "build_graph"]
                     ELSE [Job(clock) EXCEPT !.thread = "build_graph"]
         IN  /\ JOBS' = (JOBS \ Old) \cup {j}
             /\ jobs' = (j :> made) @@ jobs
             /\ files' = IF impl = "app_custom"
                         THEN CleanupFiles(files) \cup {InputPath(j)}
                         ELSE CleanupFiles(files)
    /\ UNCHANGED <<sseVars, startVars, writerVars, pipelineVars, impl, clock, streams>>
    /\ response' = NoResponse

\* the progress events a successful worker publishes before the terminal
\* one, cut down to the first report of build_graph ("reading", 0.0): the
\* later reports of build_graph, "layout" and "compressing" go the same way
BuildGraphEvents == << Event("reading", 0) >>

\* the call of build_graph raises and the except clause runs: app_custom
\* calls build_graph(job.temp_input_path, progress_callback=callback), a
\* TypeError before build_graph runs; in deprecated build_graph() reads the
\* file named by NEWICK and raises when it holds no tree
WorkerFails(j) ==
    /\ j \in DOMAIN jobs
    /\ jobs[j].thread = "build_graph"
    /\ LET reason == IF impl = "app_custom" THEN TypeErrorText ELSE NoTreeText
           failed == [jobs[j] EXCEPT !.error = Some(reason)]
       IN  jobs' = [jobs EXCEPT ![j] =
                       [post_progress(failed, "error", 0)
                           EXCEPT !.thread = "finally"]]
    /\ UNCHANGED <<sseVars, startVars, writerVars, pipelineVars, impl, clock, JOBS, files, streams>>
    /\ response' = NoResponse

\* deprecated: build_graph() returns the two tables of the file's tree,
\* the ids are remapped and the gzip stream is opened
WorkerBuilds(j) ==
    /\ j \in DOMAIN jobs
    /\ jobs[j].thread = "build_graph"
    /\ impl = "deprecated"
    /\ jobs' = [jobs EXCEPT ![j] =
                   [PostAll(@, BuildGraphEvents) EXCEPT !.thread = "writing"]]
    /\ UNCHANGED <<sseVars, startVars, writerVars, pipelineVars, impl, clock, JOBS, files, streams>>
    /\ response' = NoResponse

\* deprecated: the gzip stream is written to its end,
\* job.result = buf.getvalue(), job.post_progress("complete", 100.0)
WorkerCompletes(j) ==
    /\ j \in DOMAIN jobs
    /\ jobs[j].thread = "writing"
    /\ jobs' = [jobs EXCEPT ![j] =
                   [post_progress([@ EXCEPT !.result = Some(Payload)],
                                  "complete", 100)
                       EXCEPT !.thread = "finally"]]
    /\ UNCHANGED <<sseVars, startVars, writerVars, pipelineVars, impl, clock, JOBS, files, streams>>
    /\ response' = NoResponse

\* a worker that ends without setting the flag
FinishedSilently(jr) == [jr EXCEPT !.thread = "exited"]

\* a worker that sets the flag on the success path only
FinishedOnSuccess(jr) ==
    [jr EXCEPT !.done = (jr.error = None), !.thread = "exited"]

\* finally: job.done.set(), and the thread ends
Finished(jr) == [jr EXCEPT !.done = TRUE, !.thread = "exited"]

WorkerFinally(j) ==
    /\ j \in DOMAIN jobs
    /\ jobs[j].thread = "finally"
    /\ jobs' = [jobs EXCEPT ![j] = Finished(@)]
    /\ UNCHANGED <<sseVars, startVars, writerVars, pipelineVars, impl, clock, JOBS, files, streams>>
    /\ response' = NoResponse

\* a step of the worker thread of job j
Worker(j) ==
    \/ WorkerFails(j)
    \/ WorkerBuilds(j)
    \/ WorkerCompletes(j)
    \/ WorkerFinally(j)

-----------------------------------------------------------------------------
(* The job orchestrator: Progress *)

\* the event the generator makes up when the job is done and the queue
\* is empty
Synthesized == Event("complete", 100)

\* get_job_progress: an unknown id is answered "Job not found" and opens
\* no stream, a known one gets a stream that holds the Job object; `late`
\* records that the job was done when the stream was opened
Progress(j) ==
    /\ IF j \in JOBS
       THEN /\ Len(streams) < MaxStreams
            /\ streams' = Append(streams, [job |-> j, pc |-> "top",
                                           sent |-> <<>>,
                                           late |-> jobs[j].done])
       ELSE streams' = streams
    /\ UNCHANGED <<sseVars, startVars, writerVars, pipelineVars, impl, clock, JOBS, jobs, files>>
    /\ response' = NoResponse

\* job.done.is_set() and job.progress_queue.empty() of stream s
DoneAndEmpty(s) ==
    jobs[streams[s].job].done /\ jobs[streams[s].job].progress_queue = <<>>

\* the top of the loop finds the job done and the queue empty: the
\* synthesized complete is sent and the stream ends
StreamSynthesizes(s) ==
    /\ s \in 1..Len(streams)
    /\ streams[s].pc = "top"
    /\ DoneAndEmpty(s)
    /\ streams' = [streams EXCEPT ![s].sent = Append(@, Synthesized),
                                  ![s].pc = "closed"]
    /\ UNCHANGED <<sseVars, startVars, writerVars, pipelineVars, impl, clock, JOBS, jobs, files>>
    /\ response' = NoResponse

\* otherwise the loop goes on to progress_queue.get(timeout=0.5)
StreamPolls(s) ==
    /\ s \in 1..Len(streams)
    /\ streams[s].pc = "top"
    /\ ~DoneAndEmpty(s)
    /\ streams' = [streams EXCEPT ![s].pc = "get"]
    /\ UNCHANGED <<sseVars, startVars, writerVars, pipelineVars, impl, clock, JOBS, jobs, files>>
    /\ response' = NoResponse

\* a delivery that ends the stream on every terminal event
EndsOnTerminal(update) == update.stage \in {"error", "complete"}

\* if update.get("stage") == "error": break
EndsStream(update) == update.stage = "error"

\* get returns the oldest event: it is sent, and an error event ends the
\* stream
StreamDelivers(s) ==
    /\ s \in 1..Len(streams)
    /\ streams[s].pc = "get"
    /\ jobs[streams[s].job].progress_queue # <<>>
    /\ LET update == Head(jobs[streams[s].job].progress_queue)
       IN  /\ jobs' = [jobs EXCEPT ![streams[s].job].progress_queue = Tail(@)]
           /\ streams' = [streams EXCEPT
                             ![s].sent = Append(@, update),
                             ![s].pc = IF EndsStream(update) THEN "closed"
                                       ELSE "top"]
    /\ UNCHANGED <<sseVars, startVars, writerVars, pipelineVars, impl, clock, JOBS, files>>
    /\ response' = NoResponse

\* get times out on an empty queue (queue.Empty): app_custom goes back to
\* the top, at once when the job is done and after a sleep when not;
\* deprecated sends the synthesized complete and ends when the job is done
StreamTimesOut(s) ==
    /\ s \in 1..Len(streams)
    /\ streams[s].pc = "get"
    /\ jobs[streams[s].job].progress_queue = <<>>
    /\ streams' =
          IF impl = "deprecated" /\ jobs[streams[s].job].done
          THEN [streams EXCEPT ![s].sent = Append(@, Synthesized),
                               ![s].pc = "closed"]
          ELSE [streams EXCEPT ![s].pc = "top"]
    /\ UNCHANGED <<sseVars, startVars, writerVars, pipelineVars, impl, clock, JOBS, jobs, files>>
    /\ response' = NoResponse

\* the client goes away: the generator is closed where it stands
StreamDisconnects(s) ==
    /\ s \in 1..Len(streams)
    /\ streams[s].pc \in {"top", "get"}
    /\ streams' = [streams EXCEPT ![s].pc = "disconnected"]
    /\ UNCHANGED <<sseVars, startVars, writerVars, pipelineVars, impl, clock, JOBS, jobs, files>>
    /\ response' = NoResponse

\* a step of the generator of stream s
Stream(s) ==
    \/ StreamSynthesizes(s)
    \/ StreamPolls(s)
    \/ StreamDelivers(s)
    \/ StreamTimesOut(s)

-----------------------------------------------------------------------------
(* The job orchestrator: Result *)

\* a result that is handed out once
ReadOnce(jr) == [jr EXCEPT !.result = None]

\* deprecated keeps job.result after it was sent
Retained(jr) == jr

\* a get_job_result that does not look at job.done
ResultOfUnready(j) ==
    IF j \notin JOBS THEN [kind |-> "NotFound", body |-> "Job not found"]
    ELSE IF jobs[j].error # None /\ jobs[j].error[1] # ""
         THEN [kind |-> "Failed", body |-> jobs[j].error[1]]
    ELSE IF jobs[j].result = None
         THEN [kind |-> "NoData", body |-> "No result data"]
         ELSE [kind |-> "Payload", body |-> Payload]

\* what get_job_result answers for job id j
ResultOf(j) ==
    IF j \notin JOBS THEN [kind |-> "NotFound", body |-> "Job not found"]
    ELSE IF ~jobs[j].done THEN [kind |-> "NotReady", body |-> "Job not ready"]
    ELSE IF jobs[j].error # None /\ jobs[j].error[1] # ""
         THEN [kind |-> "Failed", body |-> jobs[j].error[1]]
    ELSE IF impl = "app_custom"
         THEN IF jobs[j].result_path = None
                 \/ jobs[j].result_path[1] \notin files
              THEN [kind |-> "NoData", body |-> "No result data on disk"]
              ELSE [kind |-> "Payload", body |-> Payload]
    ELSE IF jobs[j].result = None
         THEN [kind |-> "NoData", body |-> "No result data"]
         ELSE [kind |-> "Payload", body |-> Payload]

\* get_job_result; after a payload app_custom runs its background tasks,
\* delete_file(job.result_path) and job.cleanup
Result(j) ==
    /\ response' = [kind |-> ResultOf(j).kind, body |-> ResultOf(j).body,
                    job |-> j]
    /\ files' = IF impl = "app_custom" /\ ResultOf(j).kind = "Payload"
                THEN files \ Scratch({j})
                ELSE files
    /\ jobs' = IF ResultOf(j).kind = "Payload"
               THEN [jobs EXCEPT ![j] = Retained(@)]
               ELSE jobs
    /\ UNCHANGED <<sseVars, startVars, writerVars, pipelineVars, impl, clock, JOBS, streams>>

-----------------------------------------------------------------------------
(* The service *)

\* no pipeline run is followed
PipelineIdle ==
    /\ entry = "service"
    /\ text = <<>>
    /\ limit = None
    /\ newick = <<>>
    /\ geom = DefaultGeometry
    /\ pc = "idle"
    /\ i = 1
    /\ nodes = EmptyMap
    /\ nid = 0
    /\ stack = <<>>
    /\ last = None
    /\ current_parent = None
    /\ pending_name = None
    /\ pending_len = None
    /\ err = ""
    /\ dist = EmptyMap
    /\ y = EmptyMap
    /\ raw_stems = <<>>
    /\ spread_stems = <<>>
    /\ stem_map = EmptyMap
    /\ pts = <<>>
    /\ links = <<>>
    /\ node_id_actual = EmptyMap
    /\ next_id = 0
    /\ point_cache = EmptyMap
    /\ link_cache = {}
    /\ id_to_idx = EmptyMap
    /\ x_tipline = 0
    /\ cursor = 0

\* the application has been imported: JOBS = {}
JobInit ==
    /\ PipelineIdle
    /\ impl \in {"app_custom", "deprecated"}
    /\ clock = 0
    /\ JOBS = {}
    /\ jobs = EmptyMap
    /\ files = {}
    /\ streams = <<>>
    /\ response = NoResponse
    /\ buf = <<>>
    /\ offset = 0
    /\ NoCalls
    /\ NoStream

JobNext ==
    \/ Tick
    \/ Start
    \/ \E j \in 1..MaxJobs : Worker(j)
    \/ \E j \in 1..MaxJobs : Progress(j)
    \/ \E s \in 1..MaxStreams : Stream(s)
    \/ \E s \in 1..MaxStreams : StreamDisconnects(s)
    \/ \E j \in 1..MaxJobs : Result(j)

JobSpec == JobInit /\ [][JobNext]_vars

\* the worker is a thread of its own, which the interpreter keeps running
WorkerFair == JobSpec /\ \A j \in 1..MaxJobs : WF_vars(Worker(j))

\* and the event loop keeps running the generator of a connected client
JobFair ==
    /\ JobSpec
    /\ \A j \in 1..MaxJobs : WF_vars(Worker(j))
    /\ \A s \in 1..MaxStreams : WF_vars(Stream(s))

-----------------------------------------------------------------------------
(* start_graph_job statement by statement.  The handler is a plain `def`,  *)
(* which the server runs on a thread of its pool, one thread a call; no    *)
(* lock is taken around JOBS.  A call may be suspended between two rounds  *)
(* of a loop and between two statements.  The dict iterator of             *)
(* `for jid, job in JOBS.items()` keeps the size JOBS had when the loop    *)
(* began and raises RuntimeError from the next round that finds another    *)
(* size.  JOBS yields the jobs in insertion order, which is the order of   *)
(* the job ids here.                                                       *)

\* the next key the iterator of a call yields, if any
NextKey(call) == { j \in JOBS : j > call.at /\ \A o \in JOBS : o > call.at => j <= o }

\* the call after one round of the loop of _cleanup_old_jobs: the iterator
\* raises, or is exhausted, or yields a job, which is noted when it is old
Scanned(call) ==
    IF Cardinality(JOBS) # Cardinality(call.table)
    THEN [call EXCEPT !.pc = "raised"]
    ELSE IF NextKey(call) = {} THEN [call EXCEPT !.pc = "pop"]
    ELSE LET j == CHOOSE o \in NextKey(call) : TRUE
         IN  [call EXCEPT !.at = j,
                          !.to_del = IF call.now - jobs[j].created_at > JobMaxAge
                                     THEN Append(@, j) ELSE @]

\* the files after the round that took the call from `before` to `after`:
\* app_custom removes the files of a job it notes
ScannedFiles(before, after) ==
    IF impl = "app_custom" /\ Len(after.to_del) > Len(before.to_del)
    THEN files \ Scratch({after.at})
    ELSE files

\* a request arrives: now = time.time(), to_del = [], and the first round
\* of the loop
Called ==
    /\ Len(calls) < MaxCalls
    /\ LET fresh == [pc |-> "scan", now |-> clock, table |-> JOBS, at |-> 0,
                     to_del |-> <<>>, job |-> 0]
       IN  /\ calls' = Append(calls, Scanned(fresh))
           /\ files' = ScannedFiles(fresh, Scanned(fresh))
    /\ UNCHANGED <<sseVars, writerVars, pipelineVars, impl, clock, JOBS, jobs,
                   streams>>
    /\ response' = NoResponse

\* a later round of the loop
ScanNext(c) ==
    /\ c \in 1..Len(calls)
    /\ calls[c].pc = "scan"
    /\ calls' = [calls EXCEPT ![c] = Scanned(@)]
    /\ files' = ScannedFiles(calls[c], Scanned(calls[c]))
    /\ UNCHANGED <<sseVars, writerVars, pipelineVars, impl, clock, JOBS, jobs,
                   streams>>
    /\ response' = NoResponse

\* one round of `for jid in to_del: JOBS.pop(jid, None)`
PopOld(c) ==
    /\ c \in 1..Len(calls)
    /\ calls[c].pc = "pop"
    /\ calls[c].to_del # <<>>
    /\ JOBS' = JOBS \ {Head(calls[c].to_del)}
    /\ calls' = [calls EXCEPT ![c].to_del = Tail(@)]
    /\ UNCHANGED <<sseVars, writerVars, pipelineVars, impl, clock, jobs, files,
                   streams>>
    /\ response' = NoResponse

\* job = Job(); JOBS[job.id] = job
Insert(c) ==
    /\ c \in 1..Len(calls)
    /\ calls[c].pc = "pop"
    /\ calls[c].to_del = <<>>
    /\ LET j == Cardinality(DOMAIN jobs) + 1
       IN  /\ JOBS' = JOBS \cup {j}
           /\ jobs' = (j :> Job(clock)) @@ jobs
           /\ calls' = [calls EXCEPT ![c].pc = "inserted", ![c].job = j]
    /\ UNCHANGED <<sseVars, writerVars, pipelineVars, impl, clock, files,
                   streams>>
    /\ response' = NoResponse

\* the rest of the handler: app_custom stores the upload; the worker thread
\* is started and the id of the job returned
Launch(c) ==
    /\ c \in 1..Len(calls)
    /\ calls[c].pc = "inserted"
    /\ \E up \in IF impl = "app_custom" THEN Uploads ELSE { None } :
         LET j == calls[c].job
         IN  /\ jobs' = [jobs EXCEPT ![j] =
                            IF impl = "app_custom"
                            THEN [@ EXCEPT !.temp_input_path = Some(InputPath(j)),
                                           !.upload = up,
                                           !.thread = "build_graph"]
                            ELSE [@ EXCEPT !.thread = "build_graph"]]
             /\ files' = IF impl = "app_custom" THEN files \cup {InputPath(j)}
                         ELSE files
    /\ calls' = [calls EXCEPT ![c].pc = "returned"]
    /\ UNCHANGED <<sseVars, writerVars, pipelineVars, impl, clock, JOBS,
                   streams>>
    /\ response' = NoResponse

\* the requests of MaxCalls clients, each on its own thread
RaceNext ==
    \/ Tick
    \/ Called
    \/ \E c \in 1..MaxCalls : ScanNext(c) \/ PopOld(c) \/ Insert(c) \/ Launch(c)

RaceSpec == JobInit /\ [][RaceNext]_vars

-----------------------------------------------------------------------------
(* /api/graph/stream of src/tree-web/app.py: generate() and its compute   *)
(* thread.  progress_queue is a queue.Queue() without a bound, so no put   *)
(* fails.  The tables build_graph returns are followed by their lengths.   *)
(* On the tables of build_graph neither _norm_nodes, _norm_links nor       *)
(* json.dumps raises, so the `except Exception` of line 220 is not         *)
(* entered.                                                               *)

\* max_wait of the wait for result_storage["ready"]
max_wait == 50

\* the message of a chunk of records
ChunkMessage(stage, index, total) ==
    [stage |-> stage, index |-> index, total |-> total]

\* the "error" message of the compute thread and of the wait for the data
ErrorMessage(reason) == [stage |-> "error", progress |-> 0, error |-> reason]

\* thread.start() of line 109
StartThread ==
    /\ generate.pc = "idle"
    /\ compute' = [compute EXCEPT !.pc = "build_graph"]
    /\ generate' = [generate EXCEPT !.pc = "top"]
    /\ UNCHANGED <<pipelineVars, jobVars, writerVars, startVars,
                   progress_queue, computation_done, result_storage, yielded>>

\* callback(stage, progress) called by build_graph: the reports of
\* BuildGraphEvents, one put each
ComputeReports ==
    /\ compute.pc = "build_graph"
    /\ compute.reported < Len(BuildGraphEvents)
    /\ progress_queue' = Append(progress_queue,
                                BuildGraphEvents[compute.reported + 1])
    /\ compute' = [compute EXCEPT !.reported = @ + 1]
    /\ UNCHANGED <<pipelineVars, jobVars, writerVars, startVars,
                   computation_done, result_storage, generate, yielded>>

\* build_graph raises, after any of its reports, and the except clause puts
\* the "error" event
ComputeRaises ==
    /\ compute.pc = "build_graph"
    /\ progress_queue' = Append(progress_queue, ErrorMessage(NoTreeText))
    /\ compute' = [compute EXCEPT !.pc = "finally"]
    /\ UNCHANGED <<pipelineVars, jobVars, writerVars, startVars,
                   computation_done, result_storage, generate, yielded>>

\* build_graph returns its two tables and lines 87-88 store them
ComputeStores ==
    /\ compute.pc = "build_graph"
    /\ compute.reported = Len(BuildGraphEvents)
    /\ \E n \in 1..MaxRows, m \in 1..MaxRows :
         result_storage' = [result_storage EXCEPT !.nodes = Some(n),
                                                  !.links = Some(m)]
    /\ compute' = [compute EXCEPT !.pc = "stored"]
    /\ UNCHANGED <<pipelineVars, jobVars, writerVars, startVars,
                   progress_queue, computation_done, generate, yielded>>

\* result_storage["ready"] = True
ComputeSetsReady ==
    /\ compute.pc = "stored"
    /\ result_storage' = [result_storage EXCEPT !.ready = TRUE]
    /\ compute' = [compute EXCEPT !.pc = "ready"]
    /\ UNCHANGED <<pipelineVars, jobVars, writerVars, startVars,
                   progress_queue, computation_done, generate, yielded>>

\* the put of the "complete" event, lines 92-95
ComputePutsComplete ==
    /\ compute.pc = "ready"
    /\ progress_queue' = Append(progress_queue, Event("complete", 100))
    /\ compute' = [compute EXCEPT !.pc = "finally"]
    /\ UNCHANGED <<pipelineVars, jobVars, writerVars, startVars,
                   computation_done, result_storage, generate, yielded>>

\* finally: computation_done.set()
ComputeFinally ==
    /\ compute.pc = "finally"
    /\ computation_done' = TRUE
    /\ compute' = [compute EXCEPT !.pc = "exited"]
    /\ UNCHANGED <<pipelineVars, jobVars, writerVars, startVars,
                   progress_queue, result_storage, generate, yielded>>

\* line 115: `if computation_done.is_set() and progress_queue.empty()`,
\* and the sleep of line 117 when it holds
PollTop ==
    /\ generate.pc = "top"
    /\ generate' = [generate EXCEPT !.pc =
                       IF computation_done /\ progress_queue = <<>>
                       THEN "settle" ELSE "get"]
    /\ UNCHANGED <<pipelineVars, jobVars, writerVars, startVars,
                   progress_queue, computation_done, result_storage, compute,
                   yielded>>

\* a second look at the queue that breaks whatever it holds
SettleAlwaysBreaks(empty) == TRUE

\* `if progress_queue.empty(): break`
SettleBreaks(empty) == empty

\* lines 118-119 and 207-208, after the sleep: the loop is left when the
\* queue is still empty, else the loop goes on
Settle ==
    /\ generate.pc \in {"settle", "empty_settle"}
    /\ generate' = [generate EXCEPT !.pc =
                       IF SettleBreaks(progress_queue = <<>>) THEN "drain"
                       ELSE IF generate.pc = "settle" THEN "get" ELSE "top"]
    /\ UNCHANGED <<pipelineVars, jobVars, writerVars, startVars,
                   progress_queue, computation_done, result_storage, compute,
                   yielded>>

\* progress_queue.get(timeout=0.2) returns an update and line 125 yields
\* it; "complete" leads to the data, "error" to the break of line 199
GetUpdate ==
    /\ generate.pc = "get"
    /\ progress_queue # <<>>
    /\ LET update == Head(progress_queue)
       IN  /\ yielded' = Append(yielded, update)
           /\ generate' = [generate EXCEPT !.pc =
                              CASE update.stage = "complete" -> "wait_ready"
                                [] update.stage = "error" -> "drain"
                                [] OTHER -> "top"]
    /\ progress_queue' = Tail(progress_queue)
    /\ UNCHANGED <<pipelineVars, jobVars, writerVars, startVars,
                   computation_done, result_storage, compute>>

\* progress_queue.get(timeout=0.2) raises queue.Empty
GetTimesOut ==
    /\ generate.pc = "get"
    /\ progress_queue = <<>>
    /\ generate' = [generate EXCEPT !.pc = "empty"]
    /\ UNCHANGED <<pipelineVars, jobVars, writerVars, startVars,
                   progress_queue, computation_done, result_storage, compute,
                   yielded>>

\* except queue.Empty, lines 202-206: back to the loop while the thread
\* runs, else the sleep before the second look at the queue
OnEmpty ==
    /\ generate.pc = "empty"
    /\ generate' = [generate EXCEPT !.pc =
                       IF ~computation_done THEN "top" ELSE "empty_settle"]
    /\ UNCHANGED <<pipelineVars, jobVars, writerVars, startVars,
                   progress_queue, computation_done, result_storage, compute,
                   yielded>>

\* lines 130-139: the wait for the data, at most max_wait sleeps, and the
\* "Data not ready" error after them
WaitReady ==
    /\ generate.pc = "wait_ready"
    /\ IF ~result_storage.ready /\ generate.waited < max_wait
       THEN /\ generate' = [generate EXCEPT !.waited = @ + 1]
            /\ UNCHANGED yielded
       ELSE IF ~result_storage.ready
       THEN /\ yielded' = Append(yielded, ErrorMessage("Data not ready"))
            /\ generate' = [generate EXCEPT !.pc = "drain"]
       ELSE /\ generate' = [generate EXCEPT !.pc = "nodes", !.at = 0]
            /\ UNCHANGED yielded
    /\ UNCHANGED <<pipelineVars, jobVars, writerVars, startVars,
                   progress_queue, computation_done, result_storage, compute>>

\* one round of `for i in range(0, node_total, chunk_size)`
SendNodesChunk ==
    /\ generate.pc = "nodes"
    /\ generate.at < result_storage.nodes[1]
    /\ yielded' = Append(yielded,
                         ChunkMessage("nodes_chunk", generate.at \div chunk_size,
                                      result_storage.nodes[1]))
    /\ generate' = [generate EXCEPT !.at = @ + chunk_size]
    /\ UNCHANGED <<pipelineVars, jobVars, writerVars, startVars,
                   progress_queue, computation_done, result_storage, compute>>

\* the end of the loop over the nodes
NodesSent ==
    /\ generate.pc = "nodes"
    /\ generate.at >= result_storage.nodes[1]
    /\ generate' = [generate EXCEPT !.pc = "links", !.at = 0]
    /\ UNCHANGED <<pipelineVars, jobVars, writerVars, startVars,
                   progress_queue, computation_done, result_storage, compute,
                   yielded>>

\* one round of `for i in range(0, link_total, chunk_size)`
SendLinksChunk ==
    /\ generate.pc = "links"
    /\ generate.at < result_storage.links[1]
    /\ yielded' = Append(yielded,
                         ChunkMessage("links_chunk", generate.at \div chunk_size,
                                      result_storage.links[1]))
    /\ generate' = [generate EXCEPT !.at = @ + chunk_size]
    /\ UNCHANGED <<pipelineVars, jobVars, writerVars, startVars,
                   progress_queue, computation_done, result_storage, compute>>

\* lines 194-196: "data_complete" and the break
SendDataComplete ==
    /\ generate.pc = "links"
    /\ generate.at >= result_storage.links[1]
    /\ yielded' = Append(yielded, Event("data_complete", 100))
    /\ generate' = [generate EXCEPT !.pc = "drain"]
    /\ UNCHANGED <<pipelineVars, jobVars, writerVars, startVars,
                   progress_queue, computation_done, result_storage, compute>>

\* lines 211-219, the final check: what is left on the queue is yielded,
\* and the generator returns when the queue is empty
Drain ==
    /\ generate.pc = "drain"
    /\ IF progress_queue = <<>>
       THEN /\ generate' = [generate EXCEPT !.pc = "closed"]
            /\ UNCHANGED <<progress_queue, yielded>>
       ELSE /\ yielded' = Append(yielded, Head(progress_queue))
            /\ progress_queue' = Tail(progress_queue)
            /\ UNCHANGED generate
    /\ UNCHANGED <<pipelineVars, jobVars, writerVars, startVars,
                   computation_done, result_storage, compute>>

\* one GET of /api/graph/stream
StreamInit ==
    /\ PipelineIdle
    /\ NoService
    /\ buf = <<>>
    /\ offset = 0
    /\ NoCalls
    /\ NoStream

StreamNext ==
    \/ StartThread
    \/ ComputeReports
    \/ ComputeRaises
    \/ ComputeStores
    \/ ComputeSetsReady
    \/ ComputePutsComplete
    \/ ComputeFinally
    \/ PollTop
    \/ Settle
    \/ GetUpdate
    \/ GetTimesOut
    \/ OnEmpty
    \/ WaitReady
    \/ SendNodesChunk
    \/ NodesSent
    \/ SendLinksChunk
    \/ SendDataComplete
    \/ Drain

StreamSpec == StreamInit /\ [][StreamNext]_vars

-----------------------------------------------------------------------------
(* Properties of parse_newick *)

\* parse_newick has returned a table
Returned ==
    pc \in {"parsed", "y_assigned", "node_points", "edges", "markers", "graph"}

\* the nodes of the table that have no parent
Parentless(tbl) == { u \in DOMAIN tbl : tbl[u].parent = None }

\* the nodes the token loop created (all but the synthetic root)
Parsed(tbl) == DOMAIN tbl \ {root0}

\* C1: once parse_newick has returned a table, exactly one node of it has
\* parent = None, whatever the token sequence was (cut short by `limit`,
\* groups left open, several top-level nodes).
C1_ExactlyOneRoot ==
    Returned => Cardinality(Parentless(nodes)) = 1

\* C1 witness: a returned table built from several top-level nodes with a
\* group still open
C1_Witness ==
    /\ pc = "parsed"
    /\ root0 \in DOMAIN nodes
    /\ stack # <<>>

\* C2: parent and children agree in both directions in every state of the
\* parse (after every token step, after the root logic, after the child
\* sort): every child listed by v has parent v, and every node with parent
\* p is listed exactly once by p.
C2_ParentChildrenAgree ==
    /\ \A v \in DOMAIN nodes :
          \A k \in 1..Len(nodes[v].children) :
             /\ nodes[v].children[k] \in DOMAIN nodes
             /\ nodes[nodes[v].children[k]].parent = Some(v)
    /\ \A u \in DOMAIN nodes :
          nodes[u].parent # None =>
             /\ nodes[u].parent[1] \in DOMAIN nodes
             /\ Cardinality({ k \in 1..Len(nodes[nodes[u].parent[1]].children) :
                                nodes[nodes[u].parent[1]].children[k] = u }) = 1

\* C2 witness: a returned table with a synthetic root above a group that
\* has children of its own
C2_Witness ==
    /\ pc = "parsed"
    /\ root0 \in DOMAIN nodes
    /\ \E v \in Parsed(nodes) : Len(nodes[v].children) >= 1

\* C3: a name token right after ")" names the group just closed and makes
\* no node: for ((A,B)X,C); the table has 5 nodes and the inner group, n2,
\* is named X.
C3_NameAfterCloseNamesGroup ==
    (text = Text_GroupName /\ limit = None /\ Returned) =>
        /\ Cardinality(DOMAIN nodes) = 5
        /\ nodes[2].name = <<"X">>

\* C4: a length token right after ")" sets the branch_length of the group
\* just closed and of no other node: for ((A,B):5,C); the inner group, n2,
\* ends with 5 and the outer group, n1, keeps 0.
C4_LengthAfterCloseSetsGroup ==
    (text = Text_GroupLen /\ limit = None /\ Returned) =>
        /\ nodes[2].blen = 5
        /\ nodes[1].blen = 0

\* C5 as stated: every node of the returned table has branch_length >= 0.
C5_StoredLengthNonNegative ==
    Returned => \A u \in DOMAIN nodes : nodes[u].blen >= 0

\* C5 amended: the returned table keeps a negative length as written; the
\* clamp is applied where the length is used: compute_cumdist gives the
\* root 0 and every other node c the distance of its parent plus
\* max(0, branch_length(c)), so no node is nearer the root than its parent.
C5_ClampedWhenUsed ==
    pc = "y_assigned" =>
        \A c \in DOMAIN nodes :
            IF nodes[c].parent = None
            THEN dist[c] = 0
            ELSE /\ dist[c] >= dist[nodes[c].parent[1]]
                 /\ dist[c] - dist[nodes[c].parent[1]] =
                      (IF nodes[c].blen < 0 THEN 0 ELSE nodes[c].blen)

\* C5 witness: distances computed on a table in which a node below the
\* root holds a negative branch_length
C5_Witness ==
    /\ pc = "y_assigned"
    /\ \E c \in DOMAIN nodes : nodes[c].parent # None /\ nodes[c].blen < 0

\* C6: the pipeline run on the unterminated input (A,B fails: parsing
\* raises and no tree is produced.
C6_UnterminatedInputFails ==
    (entry = "build_graph" /\ text = Text_Unterminated) => ~Returned

\* the names of the leaves of the table, with their y
LeafPlaces ==
    { << nodes[u].name, y[u] >> :
         u \in { v \in DOMAIN nodes : nodes[v].children = <<>> } }

\* C7 as stated: for (A:1,B:1);(C:1,D:1); the pipeline makes root0 with
\* branch_length 0 above the two top-level groups, and lays out the four
\* leaves A, B, C, D at y = 0, 400, 800, 1200.
C7_ForestUnderRoot0 ==
    (entry = "build_graph" /\ text = Text_Forest /\ pc = "y_assigned") =>
        /\ root0 \in DOMAIN nodes
        /\ nodes[root0].blen = 0
        /\ Len(nodes[root0].children) = 2
        /\ LeafPlaces = { << <<"A">>, Rat(0, 1) >>, << <<"B">>, Rat(400, 1) >>,
                          << <<"C">>, Rat(800, 1) >>, << <<"D">>, Rat(1200, 1) >> }

\* C7 amended: for (A:1,B:1);(C:1,D:1); the pipeline uses the first tree
\* only: no root0 is made, the root is the first group n1 with the two
\* leaves A and B as children, laid out at y = 0 and 400; C and D are not
\* in the table.
C7_FirstTreeOnly ==
    (entry = "build_graph" /\ text = Text_Forest /\ pc = "y_assigned") =>
        /\ DOMAIN nodes = {1, 2, 3}
        /\ nodes[1].parent = None
        /\ nodes[1].children = <<2, 3>>
        /\ LeafPlaces = { << <<"A">>, Rat(0, 1) >>, << <<"B">>, Rat(400, 1) >> }

\* C7 witness: the forest input has gone through the pipeline
C7_Witness ==
    entry = "build_graph" /\ text = Text_Forest /\ pc = "y_assigned"

\* the elements of a sequence, and whether it is strictly increasing
Range(sq) == { sq[k] : k \in 1..Len(sq) }
Increasing(sq) == \A k \in 1..(Len(sq) - 1) : sq[k] < sq[k + 1]

\* C8: the root logic, run on a table with k >= 2 parentless nodes, adds
\* the single node root0 (name "root", branch_length 0, no parent) whose
\* children are those k nodes in creation order, makes root0 the parent of
\* each, and changes nothing else; with k = 1 it leaves the table as it is.
C8_SyntheticRoot ==
    [][ (pc = "roots" /\ pc' = "parsed") =>
          IF Cardinality(Parentless(nodes)) >= 2
          THEN /\ root0 \notin DOMAIN nodes
               /\ DOMAIN nodes' = DOMAIN nodes \cup {root0}
               /\ nodes'[root0].name = <<"r", "o", "o", "t">>
               /\ nodes'[root0].blen = 0
               /\ nodes'[root0].parent = None
               /\ Range(nodes'[root0].children) = Parentless(nodes)
               /\ Increasing(nodes'[root0].children)
               /\ \A u \in DOMAIN nodes :
                     nodes'[u] = IF u \in Parentless(nodes)
                                 THEN [nodes[u] EXCEPT !.parent = Some(root0)]
                                 ELSE nodes[u]
          ELSE nodes' = nodes ]_vars

\* C8 witness: a returned table whose synthetic root stands above three
\* nodes
C8_Witness ==
    /\ pc = "parsed"
    /\ root0 \in DOMAIN nodes
    /\ Len(nodes[root0].children) >= 3

\* C9: with a limit L >= 1 the returned table never holds more than L
\* parsed nodes, and once the table holds L nodes parse_newick consumes no
\* further token and returns without raising.
C9_LimitIsSoftCutoff ==
    limit # None =>
        /\ Cardinality(Parsed(nodes)) <= limit[1]
        /\ Cardinality(Parsed(nodes)) >= limit[1] => pc # "raised"

\* Homo sapiens
Name_HomoSapiens ==
    <<"H", "o", "m", "o", " ", "s", "a", "p", "i", "e", "n", "s">>

\* C10: a name written inside a matching pair of quotes gives a node whose
\* name is the text between the quotes: the leaf written 'Homo sapiens' is
\* named Homo sapiens.
C10_QuotesStripped ==
    (text = Text_Quoted /\ limit = None /\ Returned) =>
        \E u \in DOMAIN nodes : nodes[u].name = Name_HomoSapiens

-----------------------------------------------------------------------------
(* Properties of build_display_graph *)

\* build_display_graph has returned its two tables
GraphBuilt == pc = "graph"

\* the positions of the points of a kind in the point table
PointsOf(kind) == { j \in 1..Len(pts) : pts[j].kind = kind }

\* a link from the point at position a to the point at position b
Linked(a, b) ==
    \E j \in 1..Len(links) :
        links[j].source = pts[a].id /\ links[j].target = pts[b].id

\* C11: the point at position i of the point table has id i (positions
\* counted from 0), so the ids are 0..P-1 without gap or repeat, also after
\* a bend lookup was answered from the cache; the source and the target of
\* every link are in [0, P).
C11_IdsDenseLinksInRange ==
    /\ \A j \in 1..Len(pts) : pts[j].id = j - 1
    /\ \A j \in 1..Len(links) :
          /\ links[j].source \in 0..(Len(pts) - 1)
          /\ links[j].target \in 0..(Len(pts) - 1)

\* C11 witness: two edges of one parent have been emitted (the second
\* lookup of the top bend was answered from the cache) and a point was
\* created after that
C11_Witness ==
    /\ pc = "edges"
    /\ cursor > 2
    /\ Edges(nodes)[cursor - 1][1] = Edges(nodes)[cursor - 2][1]
    /\ pts[Len(pts)].kind = "bend"
    /\ Len(pts) > Len(Keys(nodes)) + 2

\* C12: the link table never holds two links with the same (source,
\* target) pair: a step only appends to the table, never a pair already in
\* it, so a repeated emission changes nothing and the first link stays.
C12_NoDuplicateLinks ==
    [][ /\ \A a, b \in 1..Len(links') :
            (links'[a].source = links'[b].source
             /\ links'[a].target = links'[b].target) => a = b
        /\ Len(links') >= Len(links)
        /\ SubSeq(links', 1, Len(links)) = links ]_vars

\* C12 witness: every edge of a polytomy has been emitted, each one
\* emitting the link from the parent point to the shared top bend again
C12_Witness ==
    /\ pc = "edges"
    /\ cursor > Len(Edges(nodes))
    /\ \E u \in DOMAIN nodes : Len(nodes[u].children) >= 3
    /\ Len(links) < 3 * Len(Edges(nodes))

\* C13: in the returned tables every leaf point has exactly one marker
\* linked to it; every leaf_marker has the y of the leaf point it is linked
\* to, the x = (largest x of a leaf point) + tip_pad, and exactly one
\* outgoing link; there are as many markers as leaves.
C13_OneMarkerPerLeaf ==
    GraphBuilt =>
        LET leafPts == PointsOf("leaf")
            markers == PointsOf("leaf_marker")
            maxX == CHOOSE a \in { pts[l].x : l \in leafPts } :
                        \A l \in leafPts : pts[l].x <= a
        IN  /\ Cardinality(leafPts) = Len(Leaves(nodes))
            /\ Cardinality(markers) = Len(Leaves(nodes))
            /\ \A l \in leafPts :
                  Cardinality({ m \in markers : Linked(m, l) }) = 1
            /\ \A m \in markers :
                  /\ pts[m].x = maxX + geom.tip_pad
                  /\ Cardinality({ j \in 1..Len(links) :
                                     links[j].source = pts[m].id }) = 1
                  /\ \E l \in leafPts : Linked(m, l) /\ pts[m].y = pts[l].y

\* C13 witness: a returned graph whose leaves sit at different x
C13_Witness ==
    /\ GraphBuilt
    /\ \E a, b \in PointsOf("leaf") : pts[a].x < pts[b].x

\* assign_y_equal_leaf_spacing has returned, the stems are computed
YAssigned == pc \in {"y_assigned", "node_points", "edges", "markers", "graph"}
StemsComputed == pc \in {"node_points", "edges", "markers", "graph"}

\* C14: the leaves met by the left-to-right traversal of the tree with its
\* children reordered are all the leaves of the table, and the i-th of them
\* (from 0) has y = i * leaf_step: consecutive leaves are exactly leaf_step
\* apart and no two leaves share a y.
C14_LeafSpacing ==
    YAssigned =>
        LET lv == CollectLeaves(nodes, FindRoot(nodes))
        IN  /\ Range(lv) = { u \in DOMAIN nodes : nodes[u].children = <<>> }
            /\ \A j \in 1..Len(lv) :
                  y[lv[j]] = [n |-> (j - 1) * geom.leaf_step, d |-> 1]
            /\ \A j \in 1..(Len(lv) - 1) :
                  /\ y[lv[j]].d = 1
                  /\ y[lv[j + 1]].d = 1
                  /\ y[lv[j + 1]].n - y[lv[j]].n = geom.leaf_step
            /\ \A a, b \in 1..Len(lv) : y[lv[a]] = y[lv[b]] => a = b

\* C14 witness: three leaves or more, in a tree where the reordering put a
\* later-created child before an earlier one
C14_Witness ==
    /\ pc = "y_assigned"
    /\ Len(CollectLeaves(nodes, FindRoot(nodes))) >= 3
    /\ \E u \in DOMAIN nodes :
          \E j \in 1..(Len(nodes[u].children) - 1) :
             nodes[u].children[j] > nodes[u].children[j + 1]

\* the bend points at (x, yv)
BendsAt(x, yv) ==
    { b \in PointsOf("bend") : pts[b].x = x /\ pts[b].y = q(yv) }

\* C15: in the returned tables, for every child c of a parent u, with the
\* bends taken at the parent's stem x: if |y(u) - y(c)| > 1e-6 the links
\* u -> bend(stem, y(u)) -> bend(stem, y(c)) -> c exist and the two bends
\* are different points; otherwise the links u -> bend(stem, y(u)) -> c
\* exist and no other bend is linked to c.
C15_OrthogonalRouting ==
    GraphBuilt =>
        \A c \in DOMAIN nodes :
            nodes[c].parent # None =>
                LET u == nodes[c].parent[1]
                    up == node_id_actual[u] + 1
                    cp == node_id_actual[c] + 1
                    tops == BendsAt(stem_x(u), y[u])
                    bots == BendsAt(stem_x(u), y[c])
                IN  IF FartherThanEps(y[u], y[c])
                    THEN \E b1 \in tops : \E b2 \in bots :
                            /\ b1 # b2
                            /\ Linked(up, b1)
                            /\ Linked(b1, b2)
                            /\ Linked(b2, cp)
                    ELSE /\ \E b1 \in tops : Linked(up, b1) /\ Linked(b1, cp)
                         /\ \A b \in PointsOf("bend") :
                               Linked(b, cp) => b \in tops

\* C15 witness: a returned graph with a child at its parent's height and a
\* child away from it
C15_Witness ==
    /\ GraphBuilt
    /\ \E c \in DOMAIN nodes :
          /\ nodes[c].parent # None
          /\ y[c] = y[nodes[c].parent[1]]
    /\ \E c \in DOMAIN nodes :
          /\ nodes[c].parent # None
          /\ y[c] # y[nodes[c].parent[1]]

\* C16: the raw stems are distinct and ascending and, min_level_gap being
\* >= 0, the spread stems are spread[0] = raw[0] and spread[i] =
\* max(raw[i], spread[i-1] + min_level_gap), so that spread[i] >= raw[i]
\* and spread[i] - spread[i-1] >= min_level_gap.
C16_StemSpread ==
    (StemsComputed /\ geom.min_level_gap >= 0) =>
        /\ Increasing(raw_stems)
        /\ Len(spread_stems) = Len(raw_stems)
        /\ spread_stems[1] = raw_stems[1]
        /\ \A j \in 2..Len(raw_stems) :
              /\ spread_stems[j] =
                    IF raw_stems[j] > spread_stems[j - 1] + geom.min_level_gap
                    THEN raw_stems[j]
                    ELSE spread_stems[j - 1] + geom.min_level_gap
              /\ spread_stems[j] >= raw_stems[j]
              /\ spread_stems[j] - spread_stems[j - 1] >= geom.min_level_gap

\* C16 witness: a stem was pushed right of its raw place, and a later stem
\* stayed where it was
C16_Witness ==
    /\ StemsComputed
    /\ \E j \in 2..Len(raw_stems) : spread_stems[j] > raw_stems[j]
    /\ \E j \in 2..Len(raw_stems) : spread_stems[j] = raw_stems[j]

\* C17: in the returned tables no two bend points have the same rounded
\* (x, y); every logical node has a point of its own, of kind leaf or
\* internal, whatever its coordinates, and the points that are no bends
\* number N + L: one per logical node and one marker per leaf.
C17_OnlyBendsCoalesce ==
    GraphBuilt =>
        LET N == Cardinality(DOMAIN nodes)
            L == Len(Leaves(nodes))
        IN  /\ \A a, b \in PointsOf("bend") :
                  (pts[a].x = pts[b].x /\ pts[a].y = pts[b].y) => a = b
            /\ \A u, w \in DOMAIN nodes :
                  node_id_actual[u] = node_id_actual[w] => u = w
            /\ \A u \in DOMAIN nodes :
                  pts[node_id_actual[u] + 1].kind =
                     IF nodes[u].children = <<>> THEN "leaf" ELSE "internal"
            /\ Cardinality(PointsOf("leaf") \cup PointsOf("internal")) = N
            /\ Cardinality(PointsOf("leaf_marker")) = L
            /\ Len(pts) - Cardinality(PointsOf("bend")) = N + L

\* C17 witness: a returned graph where two points that are no bends have
\* the same coordinates and where one bend serves several edges
C17_Witness ==
    /\ GraphBuilt
    /\ \E a, b \in 1..Len(pts) :
          /\ a # b
          /\ pts[a].kind # "bend"
          /\ pts[b].kind # "bend"
          /\ pts[a].x = pts[b].x
          /\ pts[a].y = pts[b].y
    /\ PointsOf("bend") # {}
    /\ Cardinality(PointsOf("bend")) < Len(Edges(nodes))

\* C18: the point of the root, whose x no edge overwrites, is at
\* x = stem_x(root) - parent_stub for the parent_stub passed to
\* build_display_graph, whatever its value; with the defaults it is at 0.
C18_RootAtStemMinusParentStub ==
    GraphBuilt =>
        LET r == FindRoot(nodes)
        IN  /\ pts[node_id_actual[r] + 1].x = stem_x(r) - geom.parent_stub
            /\ geom = DefaultGeometry => pts[node_id_actual[r] + 1].x = 0

\* edge emission is over
EdgesEmitted == pc \in {"markers", "graph"}

\* C19: after edge emission the point of every node c with a parent p is
\* at x = stem_x(p) + weighted_stub + max(0, branch_length(c)) * x_scale, a
\* negative length counting as 0; with the defaults (A:1,B:2); has A at
\* x = 200 and B at x = 340.
C19_ChildAtWeightedX ==
    EdgesEmitted =>
        /\ \A c \in DOMAIN nodes :
              nodes[c].parent # None =>
                 pts[node_id_actual[c] + 1].x =
                    stem_x(nodes[c].parent[1]) + WEIGHTED_STUB_PX
                    + (IF nodes[c].blen > 0 THEN nodes[c].blen ELSE 0)
                      * geom.x_scale
        /\ (text = Text_TwoLeaf /\ limit = None /\ geom = DefaultGeometry) =>
              /\ \E a \in PointsOf("leaf") :
                    pts[a].label = <<"A">> /\ pts[a].x = 200
              /\ \E b \in PointsOf("leaf") :
                    pts[b].label = <<"B">> /\ pts[b].x = 340

\* C19 witness: the edges of a tree with a negative branch length have
\* been emitted
C19_Witness ==
    /\ EdgesEmitted
    /\ \E c \in DOMAIN nodes : nodes[c].parent # None /\ nodes[c].blen < 0

\* the whole of (A:0,B:0); laid out with the default parameters
ZeroLenBuilt ==
    text = Text_ZeroLen /\ limit = None /\ geom = DefaultGeometry /\ GraphBuilt

\* C20: for (A:0,B:0); with the default parameters both leaf points are at
\* x = 60 and each of the two edges is root -> top bend -> leaf, without a
\* second bend.
C20_ZeroLengthNoSecondBend ==
    ZeroLenBuilt =>
        /\ Cardinality(PointsOf("leaf")) = 2
        /\ \A l \in PointsOf("leaf") : pts[l].x = 60
        /\ Cardinality(PointsOf("bend")) = 1
        /\ \A l \in PointsOf("leaf") :
              \E r \in PointsOf("internal") : \E b \in PointsOf("bend") :
                 Linked(r, b) /\ Linked(b, l)

\* C20 as the code has it: for (A:0,B:0); with the default parameters both
\* leaf points are at x = 60; the leaves being at y = 0 and y = 400 and the
\* root at y = 200, each of the two edges has a second bend: root ->
\* bend(20, 200) -> bend(20, y of the leaf) -> leaf, three bends in all.
C20_ZeroLengthTwoBends ==
    ZeroLenBuilt =>
        /\ Cardinality(PointsOf("leaf")) = 2
        /\ \A l \in PointsOf("leaf") : pts[l].x = 60
        /\ { pts[l].y : l \in PointsOf("leaf") } = { Rat(0, 1), Rat(400, 1) }
        /\ { <<pts[b].x, pts[b].y>> : b \in PointsOf("bend") } =
              { <<20, Rat(200, 1)>>, <<20, Rat(0, 1)>>, <<20, Rat(400, 1)>> }
        /\ Cardinality(PointsOf("bend")) = 3
        /\ \A l \in PointsOf("leaf") :
              \E r \in PointsOf("internal") :
              \E b1 \in PointsOf("bend") : \E b2 \in PointsOf("bend") :
                 /\ pts[b1].y = Rat(200, 1)
                 /\ pts[b2].y = pts[l].y
                 /\ Linked(r, b1)
                 /\ Linked(b1, b2)
                 /\ Linked(b2, l)
                 /\ ~Linked(b1, l)

\* C20 witness: (A:0,B:0); has been laid out with the defaults
C20_Witness ==
    /\ ZeroLenBuilt
    /\ Len(links) = 7

-----------------------------------------------------------------------------
(* Properties of the job orchestrator *)

\* the stages that end a job
Terminal == {"complete", "error"}

\* the streams opened so far
Streams == 1..Len(streams)

\* the last event stream s delivered
LastSent(s) == streams[s].sent[Len(streams[s].sent)]

\* C21: a stream delivers nothing after a terminal event: a `complete` or
\* `error` is the last event of its stream, so no subscriber receives
\* `complete` twice
C21_NothingAfterTerminal ==
    \A s \in Streams :
        \A n \in 1..Len(streams[s].sent) :
            streams[s].sent[n].stage \in Terminal => n = Len(streams[s].sent)

\* stream s is the only one opened for its job
OnlySubscriber(s) ==
    \A t \in Streams : streams[t].job = streams[s].job => t = s

\* stream s has ended with a terminal event as the last one delivered
EndedWithTerminal(s) ==
    /\ s \in Streams
    /\ streams[s].pc = "closed"
    /\ streams[s].sent # <<>>
    /\ LastSent(s).stage \in Terminal

\* C22: every stream whose client stays connected delivers a terminal
\* event, the worker's own or a synthesized `complete`, and ends
C22_StreamEnds ==
    \A s \in 1..MaxStreams :
        (s \in Streams) ~>
            \/ s \in Streams /\ streams[s].pc = "disconnected"
            \/ EndedWithTerminal(s)

\* a job's only subscriber, connected before the job was done, has been
\* sent a terminal event and its stream has ended
C22_Witness ==
    \E s \in Streams :
        /\ OnlySubscriber(s)
        /\ ~streams[s].late
        /\ EndedWithTerminal(s)

\* C28: the worker of every started job runs to its end and sets done,
\* on the success path and on the failure path, whatever the subscribers do
C28_WorkerSetsDone ==
    \A j \in 1..MaxJobs :
        (j \in DOMAIN jobs) ~>
            (j \in DOMAIN jobs /\ jobs[j].done /\ jobs[j].thread = "exited")

\* a failed worker has set done for a job that no stream was opened for
C28_Witness ==
    \E j \in DOMAIN jobs :
        /\ jobs[j].done
        /\ jobs[j].error # None
        /\ \A s \in Streams : streams[s].job # j

\* stream s is the first one opened for its job
FirstSubscriber(s) ==
    \A t \in Streams : streams[t].job = streams[s].job => s <= t

\* C23: a first subscriber that connects after done was set receives one
\* event only, a synthesized `complete`: no backlog and no second event
C23_LateSubscriberGetsOneComplete ==
    \A s \in Streams :
        streams[s].late /\ FirstSubscriber(s) =>
            streams[s].sent \in { <<>>, <<Synthesized>> }

\* C27: the queue of a job has a fixed finite capacity, and never holds
\* more events than that
C27_QueueWithinCapacity ==
    \A j \in DOMAIN jobs :
        maxsize > 0 /\ Len(jobs[j].progress_queue) <= maxsize

\* the events published for job j that are queued or were delivered
Published(j) ==
    Range(jobs[j].progress_queue)
    \cup UNION { Range(streams[s].sent) : s \in { t \in Streams : streams[t].job = j } }

\* C29: the terminal event of a failed worker has the stage `error` and
\* carries, in a field `error`, the reason that job.error holds
C29_ErrorEventCarriesReason ==
    \A j \in DOMAIN jobs :
        \A ev \in Published(j) :
            ev.stage = "error" =>
                "error" \in DOMAIN ev /\ Some(ev.error) = jobs[j].error

\* C30: the worker of a job started with a well-formed Newick upload
\* finishes without an error, publishes `complete`, and Result returns
\* the payload
C30_WellFormedUploadSucceeds ==
    \A j \in DOMAIN jobs :
        jobs[j].upload = Text_TwoLeaf /\ jobs[j].done =>
            /\ jobs[j].error = None
            /\ \A ev \in Published(j) : ev.stage # "error"
            /\ j \in JOBS => ResultOf(j).kind = "Payload"

\* the worker of job j has left its try block
PastWriting(j) == jobs[j].thread \in {"finally", "exited"}

\* C24: Result answers NotFound for an unknown id, else NotReady while
\* done is not set, else Failed with the reason of job.error, else the
\* payload; the payload is handed out only when done is set and no error
\* is stored, never while the worker is still writing
C24_ResultClassification ==
    response.kind # "none" =>
        LET j == response.job
        IN  /\ response.kind = "NotFound" <=> j \notin JOBS
            /\ response.kind = "NotReady" <=> j \in JOBS /\ ~jobs[j].done
            /\ response.kind = "Failed" <=>
                  j \in JOBS /\ jobs[j].done /\ jobs[j].error # None
            /\ response.kind = "Failed" => Some(response.body) = jobs[j].error
            /\ response.kind = "Payload" <=>
                  j \in JOBS /\ jobs[j].done /\ jobs[j].error = None
            /\ response.kind = "Payload" =>
                  PastWriting(j) /\ Some(response.body) = jobs[j].result

\* Result has answered with the payload of a job that is done and has no
\* error
C24_Witness ==
    /\ response.kind = "Payload"
    /\ jobs[response.job].done
    /\ jobs[response.job].error = None

Evicted == DOMAIN jobs \ JOBS

C37_FailedJobNeverCompletes ==
    \A s \in Streams :
        jobs[streams[s].job].error # None =>
            \A ev \in Range(streams[s].sent) : ev.stage # "complete"

-----------------------------------------------------------------------------
(* Properties of the tree utilities and of the layout, continued *)

\* the label a leaf is sorted under: its name, or its id when it has none
LeafLabel(tbl, x) == IF tbl[x].name # <<>> THEN tbl[x].name ELSE IdStr(x)

\* label m is the smallest leaf label below node c
SmallestLabelBelow(tbl, c, m) ==
    LET lv == Range(CollectLeaves(tbl, c))
    IN  /\ \E x \in lv : LeafLabel(tbl, x) = m
        /\ \A x \in lv : ~StrLess(LeafLabel(tbl, x), m)

\* the place of child c in the sequence cs
PlaceIn(cs, c) == CHOOSE k \in 1..Len(cs) : cs[k] = c

\* the sequence after is the sequence before, sorted ascending by the
\* smallest leaf label below each child, equal labels in the order of before
StablySorted(tbl, before, after) ==
    /\ Len(after) = Len(before)
    /\ Range(after) = Range(before)
    /\ \A a, b \in 1..Len(after) :
          a < b =>
            \E ka, kb \in { LeafLabel(tbl, x) : x \in DOMAIN tbl } :
                /\ SmallestLabelBelow(tbl, after[a], ka)
                /\ SmallestLabelBelow(tbl, after[b], kb)
                /\ ~StrLess(kb, ka)
                /\ ka = kb => PlaceIn(before, after[a]) < PlaceIn(before, after[b])

\* C34: the child sort leaves every node with the same children, in
\* ascending order of the smallest leaf label below each child (the node
\* id for a leaf without a name), children with equal keys in parse order
C34_ChildrenStablySorted ==
    [][pc = "parsed" /\ pc' = "y_assigned" =>
          /\ DOMAIN nodes' = DOMAIN nodes
          /\ \A u \in DOMAIN nodes :
                StablySorted(nodes, nodes[u].children, nodes'[u].children)]_vars

\* the sort has run and has moved a child in front of one parsed earlier
C34_Witness ==
    /\ pc = "y_assigned"
    /\ \E u \in DOMAIN nodes :
          \E a, b \in 1..Len(nodes[u].children) :
              /\ a < b
              /\ nodes[u].children[a] > nodes[u].children[b]

\* the call has ended, with a table or with an exception
Ended == Returned \/ pc = "raised"

\* C35: parse_newick never returns an empty table: a call whose tokens
\* created no node ends with an exception
C35_NoEmptyTable ==
    /\ Returned => DOMAIN nodes # {}
    /\ Ended /\ nid = 0 => pc = "raised" /\ err # ""

\* a text of length tokens only has been read to its `;`, no node was
\* created, and the call raised "No root detected"
C35_Witness ==
    /\ pc = "raised"
    /\ err = "ValueError: No root detected"
    /\ nid = 0
    /\ newick = <<":", "5", ";">>

\* the point ids one link away from a point id of the set ids
LinkTargets(ids) == { links[j].target : j \in { n \in 1..Len(links) : links[n].source \in ids } }

RECURSIVE ReachedWithin(_, _)
\* the point ids reached from the set ids by following at most n more links
ReachedWithin(ids, n) ==
    IF n = 0 \/ LinkTargets(ids) \subseteq ids THEN ids
    ELSE ReachedWithin(ids \cup LinkTargets(ids), n - 1)

\* the point ids reached from point id a by following one link or more
ReachedFrom(a) == ReachedWithin(LinkTargets({a}), Len(pts))

\* C38: the links of the returned graph form no cycle: no point reaches
\* itself by following links
C38_LinksAcyclic ==
    GraphBuilt => \A j \in 1..Len(pts) : pts[j].id \notin ReachedFrom(pts[j].id)

\* the x of the point of node u
PointX(u) == pts[node_id_actual[u] + 1].x

\* C39: in the returned graph the point of every child is at an x not
\* smaller than the x of the point of its parent
C39_ChildNotLeftOfParent ==
    GraphBuilt =>
        \A c \in DOMAIN nodes :
            nodes[c].parent # None => PointX(c) >= PointX(nodes[c].parent[1])

-----------------------------------------------------------------------------
(* Properties of the worker after the layout *)

\* the ids of the node table as the id map reads them
IdTexts(rows) == { Decimal(rows[j].id) : j \in 1..Len(rows) }

\* the remap step keeps what C32 says of the tables before and after it
RemapKeeps ==
    /\ Len(links') = Len(links)
    /\ \A j \in 1..Len(links) :
          /\ links'[j].source = 0 - 1 <=> Decimal(links[j].source) \notin IdTexts(pts)
          /\ links'[j].target = 0 - 1 <=> Decimal(links[j].target) \notin IdTexts(pts)
    /\ Len(pts') = Len(pts)
    /\ \A j \in 1..Len(pts) : pts'[j].id = j - 1
    /\ entry = "build_graph" =>
          /\ \A j \in 1..Len(links) :
                links'[j].source # 0 - 1 /\ links'[j].target # 0 - 1
          /\ links' = links
          /\ pts' = pts

\* C32: the integer remap keeps every link row, turns an endpoint into -1
\* exactly when no row of the node table has its id, and numbers the nodes
\* 0..N-1 by row; on a graph that build_display_graph produced no endpoint
\* becomes -1 and no id changes.
C32_RemapKeepsRows ==
    [][pc = "rendered" /\ pc' = "remapped" => RemapKeeps]_vars

\* a table of the worker was remapped and a link lost an endpoint
C32_Witness ==
    /\ pc = "remapped"
    /\ \E j \in 1..Len(links) : links[j].source = 0 - 1 /\ links[j].target # 0 - 1
    /\ Len(pts) > 1

\* the document with each array written in one piece
OnePiece ==
    LET whole(rows) == SubSeq(dumps(rows), 2, Len(dumps(rows)) - 1)
    IN  Chars(OpenText) \o whole(pts) \o Chars(BetweenText) \o whole(links)
        \o Chars(CloseText)

\* C33 as stated: the batched writer emits the text of writing each array
\* in one piece.
C33_SameTextAsOnePiece == pc = "written" => buf = OnePiece

\* a text without the spaces between its records; the text of a record is
\* one piece and keeps its own
Unspaced(t) == SelectSeq(t, LAMBDA e : e # [ch |-> " "])

RECURSIVE CommaJoined(_)
\* the records of a table with one comma between two neighbours
CommaJoined(rows) ==
    IF rows = <<>> THEN <<>>
    ELSE IF Len(rows) = 1 THEN <<Obj(rows[1])>>
    ELSE <<Obj(Head(rows))>> \o Chars(<<",">>) \o CommaJoined(Tail(rows))

\* C33, amended: the batched writer emits the text of writing each array
\* in one piece but for the space after a comma, which a comma between two
\* batches lacks: every record once and in table order, one comma between
\* two neighbours, none before the first or after the last; the two texts
\* are the same when neither table is longer than a batch.
C33_SameRecordsAndCommas ==
    pc = "written" =>
        /\ Unspaced(buf) = Unspaced(OnePiece)
        /\ Unspaced(buf) = Chars(OpenText) \o CommaJoined(pts)
                               \o Chars(BetweenText) \o CommaJoined(links)
                               \o Chars(CloseText)
        /\ Len(pts) <= chunk_size /\ Len(links) <= chunk_size => buf = OnePiece

\* a document was written whose nodes took more than one batch and whose
\* links filled their batches exactly
C33_Witness ==
    /\ pc = "written"
    /\ Len(pts) > chunk_size
    /\ Len(links) % chunk_size = 0

-----------------------------------------------------------------------------
(* Properties of /api/graph/stream *)

\* the chunk messages of a table of `total` records, in index order
ChunksOf(stage, total) ==
    [h \in 1..((total + chunk_size - 1) \div chunk_size) |->
        ChunkMessage(stage, h - 1, total)]

\* the stages that are no report of progress
DataStages == {"complete", "error", "nodes_chunk", "links_chunk", "data_complete"}

\* reports of progress, "complete", every chunk of nodes in index order,
\* every chunk of links in index order, one "data_complete"
WellEnded(sent) ==
    \E p \in 1..Len(sent) :
        /\ sent[p].stage = "complete"
        /\ \A h \in 1..p - 1 : sent[h].stage \notin DataStages
        /\ result_storage.nodes # None
        /\ result_storage.links # None
        /\ SubSeq(sent, p + 1, Len(sent)) =
              ChunksOf("nodes_chunk", result_storage.nodes[1])
              \o ChunksOf("links_chunk", result_storage.links[1])
              \o <<Event("data_complete", 100)>>

\* C36: the generator of /api/graph/stream never closes silently: when it
\* returns, the last message is an "error" or the messages are "complete",
\* the node chunks in index order, the link chunks in index order and one
\* "data_complete"; and the polling loop is never left before the terminal
\* event of the compute thread was yielded.
C36_NeverClosesSilently ==
    /\ generate.pc = "closed" =>
          /\ yielded # <<>>
          /\ yielded[Len(yielded)].stage = "error" \/ WellEnded(yielded)
    /\ generate.pc \in {"drain", "closed"} =>
          \E h \in 1..Len(yielded) : yielded[h].stage \in {"complete", "error"}

\* the generator returned after a graph of more than one chunk of nodes
C36_Witness ==
    /\ generate.pc = "closed"
    /\ yielded[Len(yielded)].stage = "data_complete"
    /\ result_storage.nodes[1] > chunk_size
    /\ compute.pc = "exited"

-----------------------------------------------------------------------------
(* Properties of overlapping calls of start_graph_job *)

\* C31: insertions into and evictions from JOBS are mutually exclusive:
\* while a call of start_graph_job is in its eviction scan, JOBS holds the
\* jobs it held when the scan began, so no call sees the table change under
\* its scan.
C31_TableStableUnderScan ==
    \A c \in 1..Len(calls) : calls[c].pc = "scan" => JOBS = calls[c].table

=========================================================================
